---- MODULE Spec2Model ----
(***************************************************************************)
(* Model of the authenticated-envelope encryption core of                  *)
(* playwright-advanced-encryption: CryptoService (encrypt, decrypt and the *)
(* Promise.all batch variants) over CryptoEngine.                          *)
(*                                                                         *)
(* Strings are sequences of UTF-16 code units, byte buffers are sequences  *)
(* of 0..255.  Base64, UTF-8 and String.split are modelled by what the     *)
(* runtime does.  The three library primitives (argon2, HMAC-SHA-256 and   *)
(* AES-256-GCM) are replaced by small keyed functions with the same        *)
(* interface: deterministic, length preserving, and built on two hashes so  *)
(* that different inputs give different outputs over the inputs explored   *)
(* here.                                                                   *)
(***************************************************************************)
EXTENDS Integers, Sequences, FiniteSets, TLC

\* ------------------------------------------------------------------------
\* Program constants
\* ------------------------------------------------------------------------

\* CRYPTO_CONFIG.BYTE_LENGTHS
WEB_CRYPTO_IV == 12
SALT == 32
SECRET_KEY == 32
HMAC_KEY_LENGTH == 32
\* CRYPTO_CONSTANTS.FORMAT.EXPECTED_PARTS
EXPECTED_PARTS == 4
\* validateSecretKey: secretKey.length < 16
MIN_SECRET_KEY_LENGTH == 16
\* CRYPTO_CONFIG.VALIDATION_LIMITS.MIN_SECURE_LENGTH (not used by validateSecretKey)
MIN_SECURE_LENGTH == 8
\* CRYPTO_CONSTANTS.FORMAT.PREFIX = "ENC2:"
PREFIX == <<69, 78, 67, 50, 58>>
\* CRYPTO_CONSTANTS.FORMAT.SEPARATOR = ":"
SEPARATOR == 58
\* "=" , the base64 padding character
PAD == 61
\* AES-GCM authentication tag length in bytes (WebCrypto default tagLength 128)
GCM_TAG_BYTES == 16
\* argon2 rejects salts shorter than 8 bytes (ARGON2_MIN_SALT_LENGTH)
ARGON2_MIN_SALT == 8

\* ------------------------------------------------------------------------
\* Sequences
\* ------------------------------------------------------------------------

Take(s, n) == SubSeq(s, 1, n)
Drop(s, n) == SubSeq(s, n + 1, Len(s))

\* String.prototype.startsWith
StartsWith(s, p) == Len(s) >= Len(p) /\ Take(s, Len(p)) = p

\* String.prototype.substring(n)
Substring(s, n) == IF n >= Len(s) THEN <<>> ELSE Drop(s, n)

\* index of the first occurrence of c in s at or after i, Len(s)+1 if none
RECURSIVE IndexFrom(_, _, _)
IndexFrom(s, c, i) ==
    IF i > Len(s) THEN Len(s) + 1
    ELSE IF s[i] = c THEN i
    ELSE IndexFrom(s, c, i + 1)

\* String.prototype.split(sep) for a one-character separator: "" gives [""]
RECURSIVE Split(_, _)
Split(s, sep) ==
    LET k == IndexFrom(s, sep, 1)
    IN  IF k > Len(s) THEN <<s>>
        ELSE <<Take(s, k - 1)>> \o Split(Drop(s, k), sep)

\* ------------------------------------------------------------------------
\* Base64 (Buffer.toString("base64"), Buffer.from(s, "base64"))
\* ------------------------------------------------------------------------

B64Char(v) ==
    IF v < 26 THEN 65 + v
    ELSE IF v < 52 THEN 97 + (v - 26)
    ELSE IF v < 62 THEN 48 + (v - 52)
    ELSE IF v = 62 THEN 43
    ELSE 47

\* [A-Za-z0-9+/]
IsB64Char(c) ==
    \/ c \in 65..90
    \/ c \in 97..122
    \/ c \in 48..57
    \/ c = 43
    \/ c = 47

B64Val(c) ==
    IF c \in 65..90 THEN c - 65
    ELSE IF c \in 97..122 THEN c - 97 + 26
    ELSE IF c \in 48..57 THEN c - 48 + 52
    ELSE IF c = 43 THEN 62
    ELSE 63

\* Buffer.toString("base64"): canonical, padded
RECURSIVE Base64Encode(_)
Base64Encode(b) ==
    IF Len(b) = 0 THEN <<>>
    ELSE IF Len(b) = 1 THEN
        <<B64Char(b[1] \div 4), B64Char((b[1] % 4) * 16), PAD, PAD>>
    ELSE IF Len(b) = 2 THEN
        <<B64Char(b[1] \div 4), B64Char(((b[1] % 4) * 16) + (b[2] \div 16)),
          B64Char((b[2] % 16) * 4), PAD>>
    ELSE
        <<B64Char(b[1] \div 4), B64Char(((b[1] % 4) * 16) + (b[2] \div 16)),
          B64Char(((b[2] % 16) * 4) + (b[3] \div 64)), B64Char(b[3] % 64)>>
        \o Base64Encode(Drop(b, 3))

\* the 6-bit values Node's decoder reads: it stops at the first "=" and
\* skips every character outside the alphabet
RECURSIVE B64Values(_, _)
B64Values(s, i) ==
    IF i > Len(s) \/ s[i] = PAD THEN <<>>
    ELSE IF IsB64Char(s[i]) THEN <<B64Val(s[i])>> \o B64Values(s, i + 1)
    ELSE B64Values(s, i + 1)

\* groups of four values give three bytes; a tail of two values gives one
\* byte and a tail of three gives two: the unused low bits are dropped
RECURSIVE B64Bytes(_)
B64Bytes(v) ==
    IF Len(v) < 2 THEN <<>>
    ELSE IF Len(v) = 2 THEN <<(v[1] * 4) + (v[2] \div 16)>>
    ELSE IF Len(v) = 3 THEN
        <<(v[1] * 4) + (v[2] \div 16), ((v[2] % 16) * 16) + (v[3] \div 4)>>
    ELSE
        <<(v[1] * 4) + (v[2] \div 16), ((v[2] % 16) * 16) + (v[3] \div 4),
          ((v[3] % 4) * 64) + v[4]>>
        \o B64Bytes(Drop(v, 4))

\* Buffer.from(s, "base64"): never throws
Base64Decode(s) == B64Bytes(B64Values(s, 1))

\* ------------------------------------------------------------------------
\* UTF-8 (TextEncoder.encode, new TextDecoder().decode)
\* ------------------------------------------------------------------------

IsHighSurrogate(u) == u \in 55296..56319
IsLowSurrogate(u) == u \in 56320..57343

\* the UTF-8 bytes of one code point
Utf8Of(cp) ==
    IF cp < 128 THEN <<cp>>
    ELSE IF cp < 2048 THEN <<192 + (cp \div 64), 128 + (cp % 64)>>
    ELSE IF cp < 65536 THEN
        <<224 + (cp \div 4096), 128 + ((cp \div 64) % 64), 128 + (cp % 64)>>
    ELSE
        <<240 + (cp \div 262144), 128 + ((cp \div 4096) % 64),
          128 + ((cp \div 64) % 64), 128 + (cp % 64)>>

\* TextEncoder.encode: a surrogate pair is one code point, an unpaired
\* surrogate is replaced by U+FFFD
RECURSIVE TextEncode(_)
TextEncode(s) ==
    IF Len(s) = 0 THEN <<>>
    ELSE IF IsHighSurrogate(s[1]) /\ Len(s) >= 2 /\ IsLowSurrogate(s[2]) THEN
        Utf8Of(65536 + (s[1] - 55296) * 1024 + (s[2] - 56320))
        \o TextEncode(Drop(s, 2))
    ELSE IF IsHighSurrogate(s[1]) \/ IsLowSurrogate(s[1]) THEN
        Utf8Of(65533) \o TextEncode(Tail(s))
    ELSE Utf8Of(s[1]) \o TextEncode(Tail(s))

IsCont(b, i) == i <= Len(b) /\ b[i] \in 128..191

\* the UTF-16 code units of one code point
Utf16Of(cp) ==
    IF cp < 65536 THEN <<cp>>
    ELSE <<55296 + ((cp - 65536) \div 1024), 56320 + ((cp - 65536) % 1024)>>

\* the UTF-8 decoder (not fatal): a byte that starts no well-formed
\* sequence gives U+FFFD
RECURSIVE Utf8Decode(_, _)
Utf8Decode(b, i) ==
    IF i > Len(b) THEN <<>>
    ELSE IF b[i] < 128 THEN <<b[i]>> \o Utf8Decode(b, i + 1)
    ELSE IF b[i] \in 194..223 /\ IsCont(b, i + 1) THEN
        <<(b[i] - 192) * 64 + (b[i + 1] - 128)>> \o Utf8Decode(b, i + 2)
    ELSE IF b[i] \in 224..239 /\ IsCont(b, i + 1) /\ IsCont(b, i + 2) THEN
        <<(b[i] - 224) * 4096 + (b[i + 1] - 128) * 64 + (b[i + 2] - 128)>>
        \o Utf8Decode(b, i + 3)
    ELSE IF b[i] \in 240..244 /\ IsCont(b, i + 1) /\ IsCont(b, i + 2)
            /\ IsCont(b, i + 3) THEN
        Utf16Of((b[i] - 240) * 262144 + (b[i + 1] - 128) * 4096
                + (b[i + 2] - 128) * 64 + (b[i + 3] - 128))
        \o Utf8Decode(b, i + 4)
    ELSE <<65533>> \o Utf8Decode(b, i + 1)

\* new TextDecoder().decode(bytes): ignoreBOM defaults to false, so a
\* leading U+FEFF is removed from the output
StripBOM(s) == IF Len(s) > 0 /\ s[1] = 65279 THEN Tail(s) ELSE s

TextDecode(b) == StripBOM(Utf8Decode(b, 1))

\* ------------------------------------------------------------------------
\* Library primitives: argon2.hash, subtle.sign("HMAC"), subtle.encrypt and
\* subtle.decrypt ("AES-GCM")
\* ------------------------------------------------------------------------

\* a hash of s[lo..hi], combined over a balanced tree
RECURSIVE TreeHash(_, _, _, _, _)
TreeHash(s, lo, hi, base, mod) ==
    IF lo > hi THEN 7
    ELSE IF lo = hi THEN (s[lo] + 1 + 31 * lo) % mod
    ELSE (TreeHash(s, lo, (lo + hi) \div 2, base, mod) * base
          + TreeHash(s, ((lo + hi) \div 2) + 1, hi, base, mod) * 3
          + (hi - lo)) % mod

Digest(s) ==
    <<TreeHash(s, 1, Len(s), 257, 65521), TreeHash(s, 1, Len(s), 263, 65519)>>

\* n bytes that carry both hashes of the digest d
Expand(d, n, tweak) ==
    [i \in 1..n |->
        IF i = 1 THEN d[1] % 256
        ELSE IF i = 2 THEN d[1] \div 256
        ELSE IF i = 3 THEN d[2] % 256
        ELSE IF i = 4 THEN d[2] \div 256
        ELSE (d[1] + i * d[2] + tweak * i) % 256]

\* the hash of the password bytes pw under the salt
Argon2Bytes(pw, saltBuffer, hashLength) ==
    Expand(Digest(<<1, Len(pw)>> \o pw \o saltBuffer), hashLength \div 2, 1)
    \o Expand(Digest(<<2, Len(pw)>> \o pw \o saltBuffer),
              hashLength - (hashLength \div 2), 2)

\* argon2.hash(secretKey, {salt, hashLength, raw: true}): the password
\* string is taken as its UTF-8 bytes; a salt under 8 bytes is refused
Argon2Raw(secretKey, saltBuffer, hashLength) ==
    IF Len(saltBuffer) < ARGON2_MIN_SALT
    THEN [ok |-> FALSE, bytes |-> <<>>]
    ELSE [ok |-> TRUE,
          bytes |-> Argon2Bytes(TextEncode(secretKey), saltBuffer, hashLength)]

\* subtle.sign("HMAC", key, data): a 32-byte tag
HmacSha256(key, data) == Expand(Digest(<<3>> \o key \o data), 32, 3)

KeyStream(key, iv) ==
    TreeHash(key \o iv, 1, Len(key) + Len(iv), 257, 65521) % 256

GcmTag(key, iv, body) ==
    Expand(Digest(<<4, Len(iv)>> \o key \o iv \o body), GCM_TAG_BYTES, 4)

GcmBody(ks, data) == [i \in 1..Len(data) |-> (data[i] + ks + 7 * i) % 256]
GcmPlain(ks, body) == [i \in 1..Len(body) |-> (body[i] - ks - 7 * i) % 256]
GcmSeal(key, iv, body) == body \o GcmTag(key, iv, body)
GcmOpen(key, iv, body, tag) ==
    IF tag # GcmTag(key, iv, body)
    THEN [ok |-> FALSE, bytes |-> <<>>]
    ELSE [ok |-> TRUE, bytes |-> GcmPlain(KeyStream(key, iv), body)]

\* subtle.encrypt({name: "AES-GCM", iv}, key, data): the ciphertext has the
\* length of the data, followed by the 16-byte tag
AesGcmEncrypt(key, iv, data) ==
    GcmSeal(key, iv, GcmBody(KeyStream(key, iv), data))

\* subtle.decrypt: an OperationError unless the tag verifies
AesGcmDecrypt(key, iv, cipherBuffer) ==
    IF Len(cipherBuffer) < GCM_TAG_BYTES
    THEN [ok |-> FALSE, bytes |-> <<>>]
    ELSE GcmOpen(key, iv,
                 Take(cipherBuffer, Len(cipherBuffer) - GCM_TAG_BYTES),
                 Drop(cipherBuffer, Len(cipherBuffer) - GCM_TAG_BYTES))

\* the n bytes the secure random source returns for its draw number id
RandomBytes(id, n) == [i \in 1..n |-> (id * 53 + i * 29 + ((id * i) % 7)) % 256]

\* ------------------------------------------------------------------------
\* CryptoEngine
\* ------------------------------------------------------------------------

\* a thrown Error: its message and the component names (or count) it lists
Err(msg, detail) == [msg |-> msg, detail |-> detail]
NoError == Err("", <<>>)
Failed(e) == e.msg # ""

\* the bytes a library call resolves with, or the error it rejects with
Outcome(r, msg) ==
    [err |-> IF r.ok THEN NoError ELSE Err(msg, <<>>), bytes |-> r.bytes]

\* SecureKeyGenerator.generateBase64Salt: SALT random bytes, base64
generateBase64Salt(id) == Base64Encode(RandomBytes(id, SALT))

\* SecureKeyGenerator.generateWebCryptoIV: WEB_CRYPTO_IV random bytes
generateWebCryptoIV(id) == RandomBytes(id, WEB_CRYPTO_IV)

\* the number of "=" the pattern ={0,2}$ takes at the end of value
TrailingPads(value) ==
    IF Len(value) >= 1 /\ value[Len(value)] = PAD
    THEN (IF Len(value) >= 2 /\ value[Len(value) - 1] = PAD THEN 2 ELSE 1)
    ELSE 0

\* /^[A-Za-z0-9+/]*={0,2}$/
MatchesBase64Regex(value) ==
    \A i \in 1..(Len(value) - TrailingPads(value)) : IsB64Char(value[i])

isValidBase64(value) ==
    /\ Len(value) > 0
    /\ MatchesBase64Regex(value)
    /\ Len(value) % 4 = 0

validateBase64String(value, fieldName) ==
    IF Len(value) = 0
    THEN Err("must be a non-empty string", <<fieldName>>)
    ELSE IF ~isValidBase64(value)
    THEN Err("is not a valid base64 string", <<fieldName>>)
    ELSE NoError

\* variant of validateSecretKey that takes its minimum from
\* VALIDATION_LIMITS.MIN_SECURE_LENGTH
validateSecretKeyMinSecure(secretKey) ==
    IF Len(secretKey) = 0
    THEN Err("Secret key must be a non-empty string", <<>>)
    ELSE IF Len(secretKey) < MIN_SECURE_LENGTH
    THEN Err("Secret key must be at least 16 characters long", <<>>)
    ELSE NoError

validateSecretKey(secretKey) ==
    IF Len(secretKey) = 0
    THEN Err("Secret key must be a non-empty string", <<>>)
    ELSE IF Len(secretKey) < MIN_SECRET_KEY_LENGTH
    THEN Err("Secret key must be at least 16 characters long", <<>>)
    ELSE NoError

validateInputs(value, secretKey, operation) ==
    IF Len(value) = 0
    THEN Err("Value must be a non-empty string", <<operation>>)
    ELSE IF Len(secretKey) = 0
    THEN Err("Secret key must be a non-empty string", <<operation>>)
    ELSE NoError

\* SecretFileManager.getKeyValue: the value stored for the variable in the
\* secret file, empty when there is none
getKeyValue(sec, secretKeyVariable) == sec[secretKeyVariable]

getSecretKeyFromEnvironment(sec, secretKeyVariable) ==
    IF Len(getKeyValue(sec, secretKeyVariable)) = 0
    THEN [err |-> Err("Secret key variable not found in environment file",
                      <<secretKeyVariable>>),
          secretKey |-> <<>>]
    ELSE [err |-> NoError, secretKey |-> getKeyValue(sec, secretKeyVariable)]

computeHMAC(key, data) == Base64Encode(HmacSha256(key, data))

\* the loop of constantTimeCompare: comparisonResult |= a[i] ^ b[i], kept
\* as 0 (no difference so far) or 1
\* variant of CompareLoop that leaves the loop at the first difference
RECURSIVE CompareLoopUntilMismatch(_, _, _, _, _)
CompareLoopUntilMismatch(firstValue, secondValue, i, comparisonResult, operations) ==
    IF i > Len(firstValue) \/ comparisonResult # 0
    THEN [comparisonResult |-> comparisonResult, operations |-> operations]
    ELSE CompareLoopUntilMismatch(firstValue, secondValue, i + 1,
                                  IF firstValue[i] = secondValue[i] THEN 0 ELSE 1,
                                  operations + 1)

\* operations counts the passes through the body of the loop
RECURSIVE CompareLoop(_, _, _, _, _)
CompareLoop(firstValue, secondValue, i, comparisonResult, operations) ==
    IF i > Len(firstValue)
    THEN [comparisonResult |-> comparisonResult, operations |-> operations]
    ELSE CompareLoop(firstValue, secondValue, i + 1,
                     IF firstValue[i] = secondValue[i]
                     THEN comparisonResult ELSE 1,
                     operations + 1)

\* constantTimeCompare with the passes it made through its loop
Compared(firstValue, secondValue) ==
    IF Len(firstValue) # Len(secondValue)
    THEN [result |-> FALSE, operations |-> 0]
    ELSE [result |-> CompareLoop(firstValue, secondValue, 1, 0, 0).comparisonResult = 0,
          operations |-> CompareLoop(firstValue, secondValue, 1, 0, 0).operations]

constantTimeCompare(firstValue, secondValue) ==
    Compared(firstValue, secondValue).result

encryptBuffer(iv, key, value) == AesGcmEncrypt(key, iv, TextEncode(value))

decryptBuffer(iv, key, cipherBuffer) ==
    Outcome(AesGcmDecrypt(key, iv, cipherBuffer),
            "The operation failed for an operation-specific reason")

argon2Hashing(secretKey, saltBuffer, hashLength) ==
    Outcome(Argon2Raw(secretKey, saltBuffer, hashLength), "Invalid salt length")

\* the two keys cut from the derived buffer h, unless the salt check v or
\* the hash failed
DerivedKeys(v, h) ==
    IF Failed(v)
    THEN [err |-> v, hashed |-> FALSE, encryptionKey |-> <<>>, hmacKey |-> <<>>]
    ELSE IF Failed(h.err)
    THEN [err |-> h.err, hashed |-> TRUE, encryptionKey |-> <<>>,
          hmacKey |-> <<>>]
    ELSE [err |-> NoError, hashed |-> TRUE,
          encryptionKey |-> Take(h.bytes, SECRET_KEY),
          hmacKey |-> Drop(h.bytes, SECRET_KEY)]

deriveKeysWithArgon2(secretKey, salt) ==
    DerivedKeys(validateBase64String(salt, "salt"),
                argon2Hashing(secretKey, Base64Decode(salt),
                              SECRET_KEY + HMAC_KEY_LENGTH))

\* variant of prepareHMACData that leaves the salt out
prepareHMACDataWithoutSalt(salt, iv, cipherText) ==
    Base64Decode(iv) \o Base64Decode(cipherText)

prepareHMACData(salt, iv, cipherText) ==
    Base64Decode(salt) \o Base64Decode(iv) \o Base64Decode(cipherText)

\* variant of verifyHMAC that compares nothing but the lengths
verifyHMACLengthOnly(salt, iv, cipherText, receivedHmac, hmacKey) ==
    IF Len(computeHMAC(hmacKey, prepareHMACData(salt, iv, cipherText)))
           # Len(receivedHmac)
    THEN Err("Authentication failed: HMAC mismatch - Invalid key or tampered data",
             <<>>)
    ELSE NoError

verifyHMAC(salt, iv, cipherText, receivedHmac, hmacKey) ==
    IF ~constantTimeCompare(
            computeHMAC(hmacKey, prepareHMACData(salt, iv, cipherText)),
            receivedHmac)
    THEN Err("Authentication failed: HMAC mismatch - Invalid key or tampered data",
             <<>>)
    ELSE NoError

\* variant of formatEncryptedPayload that puts no separator before the HMAC
formatWithoutLastSeparator(salt, iv, cipherText, hmacBase64) ==
    PREFIX \o salt \o <<SEPARATOR>> \o iv \o <<SEPARATOR>> \o cipherText
    \o hmacBase64

formatEncryptedPayload(salt, iv, cipherText, hmacBase64) ==
    PREFIX \o salt \o <<SEPARATOR>> \o iv \o <<SEPARATOR>> \o cipherText
    \o <<SEPARATOR>> \o hmacBase64

\* the envelope of the base64 components, with their HMAC
SignedPayload(salt, ivBase64, cipherText, hmacKey) ==
    formatEncryptedPayload(
        salt, ivBase64, cipherText,
        computeHMAC(hmacKey, prepareHMACData(salt, ivBase64, cipherText)))

createEncryptedPayload(value, salt, iv, encryptionKey, hmacKey) ==
    SignedPayload(salt, Base64Encode(iv),
                  Base64Encode(encryptBuffer(iv, encryptionKey, value)),
                  hmacKey)

\* const missingParts = []; if (!salt) missingParts.push("salt"); ...
MissingParts(salt, iv, cipherText, receivedHmac) ==
    (IF Len(salt) = 0 THEN <<"salt">> ELSE <<>>)
    \o (IF Len(iv) = 0 THEN <<"iv">> ELSE <<>>)
    \o (IF Len(cipherText) = 0 THEN <<"cipherText">> ELSE <<>>)
    \o (IF Len(receivedHmac) = 0 THEN <<"hmac">> ELSE <<>>)

\* const invalidComponents = []; if (!this.isValidBase64(salt)) ...
InvalidComponents(salt, iv, cipherText, receivedHmac) ==
    (IF ~isValidBase64(salt) THEN <<"salt">> ELSE <<>>)
    \o (IF ~isValidBase64(iv) THEN <<"iv">> ELSE <<>>)
    \o (IF ~isValidBase64(cipherText) THEN <<"cipherText">> ELSE <<>>)
    \o (IF ~isValidBase64(receivedHmac) THEN <<"hmac">> ELSE <<>>)

\* variant of ComponentErrors that looks at the invalid components first
ComponentErrorsInvalidFirst(missingComponents, invalidComponents) ==
    IF invalidComponents # <<>>
    THEN Err("Invalid format for components", invalidComponents)
    ELSE IF missingComponents # <<>>
    THEN Err("Authentication failed: Missing components", missingComponents)
    ELSE NoError

\* the last two checks of validateEncryptedComponents, on the lists of
\* missing and of invalid components
ComponentErrors(missingComponents, invalidComponents) ==
    IF missingComponents # <<>>
    THEN Err("Authentication failed: Missing components", missingComponents)
    ELSE IF invalidComponents # <<>>
    THEN Err("Invalid format for components", invalidComponents)
    ELSE NoError

validateEncryptedComponents(encryptedData, parts, salt, iv, cipherText, receivedHmac) ==
    IF ~StartsWith(encryptedData, PREFIX)
    THEN Err("Invalid encrypted format: Missing prefix", <<>>)
    ELSE IF Len(parts) # EXPECTED_PARTS
    THEN Err("Invalid format. Expected 4 parts", <<Len(parts)>>)
    ELSE ComponentErrors(MissingParts(salt, iv, cipherText, receivedHmac),
                         InvalidComponents(salt, iv, cipherText, receivedHmac))

\* const [salt, iv, cipherText, receivedHmac] = parts: a missing element is
\* undefined, which every check treats like the empty string
Element(parts, i) == IF i <= Len(parts) THEN parts[i] ELSE <<>>

Destructured(encryptedData, parts) ==
    [err |-> validateEncryptedComponents(
                 encryptedData, parts, Element(parts, 1), Element(parts, 2),
                 Element(parts, 3), Element(parts, 4)),
     salt |-> Element(parts, 1), iv |-> Element(parts, 2),
     cipherText |-> Element(parts, 3), receivedHmac |-> Element(parts, 4)]

parseEncryptedData(encryptedData) ==
    Destructured(encryptedData,
                 Split(Substring(encryptedData, Len(PREFIX)), SEPARATOR))

performDecryption(iv, encryptionKey, cipherText) ==
    decryptBuffer(Base64Decode(iv), encryptionKey, Base64Decode(cipherText))

\* ------------------------------------------------------------------------
\* CryptoService: one call of encrypt or decrypt, advanced from one await
\* to the next
\* ------------------------------------------------------------------------

\* the locals of a call.  For encrypt, input is the value and iv the
\* Uint8Array; for decrypt, input is the encrypted data and iv the base64
\* string.  trace lists the functions entered, drawn the random draws,
\* macChecked the (salt, iv, cipherText) verifyHMAC accepted, aeadInput the
\* (iv, cipherText) handed to decryptBuffer.
NewTask(op, input, keyVar) ==
    [op |-> op, input |-> input, keyVar |-> keyVar, pc |-> "start",
     secretKey |-> <<>>, salt |-> <<>>, iv |-> <<>>, cipherText |-> <<>>,
     receivedHmac |-> <<>>, encryptionKey |-> <<>>, hmacKey |-> <<>>,
     out |-> <<>>, err |-> NoError, trace |-> <<>>, drawn |-> <<>>,
     macChecked |-> <<>>, aeadInput |-> <<>>]

Settled(t) == t.pc \in {"done", "failed"}

InTraceOf(trace, name) == \E i \in 1..Len(trace) : trace[i] = name

\* the call throws e after entering the functions tr
Throw(t, e, tr) ==
    [t EXCEPT !.pc = "failed", !.err = e, !.trace = @ \o tr]

\* the call t once getSecretKeyFromEnvironment has answered r
WithSecretKey(t, r) ==
    IF Failed(r.err)
    THEN Throw(t, r.err, <<"getSecretKeyFromEnvironment">>)
    ELSE [t EXCEPT !.pc = "keyLoaded", !.secretKey = r.secretKey,
                   !.trace = @ \o <<"getSecretKeyFromEnvironment">>]

\* await getSecretKeyFromEnvironment(secretKeyVariable)
loadSecretKey(t, sec) ==
    WithSecretKey(t, getSecretKeyFromEnvironment(sec, t.keyVar))

\* the call t of encrypt after the checks k (validateSecretKey) and v
\* (validateInputs), the generated salt and its check b, the first
\* statement of deriveKeysWithArgon2
WithComponents(t, k, v, salt, b, saltId, ivId) ==
    IF Failed(k) THEN Throw(t, k, <<"validateSecretKey">>)
    ELSE IF Failed(v)
    THEN Throw(t, v, <<"validateSecretKey", "validateInputs">>)
    ELSE IF Failed(b)
    THEN Throw([t EXCEPT !.drawn = <<saltId, ivId>>], b,
               <<"validateSecretKey", "validateInputs",
                 "generateBase64Salt", "generateWebCryptoIV",
                 "deriveKeysWithArgon2">>)
    ELSE [t EXCEPT !.pc = "hashing",
                   !.salt = salt,
                   !.iv = generateWebCryptoIV(ivId),
                   !.drawn = <<saltId, ivId>>,
                   !.trace = @ \o <<"validateSecretKey", "validateInputs",
                                    "generateBase64Salt",
                                    "generateWebCryptoIV",
                                    "deriveKeysWithArgon2",
                                    "argon2Hashing">>]

\* variant of encryptPrepare that takes the salt and the nonce generated
\* once, when the module was loaded, instead of generating them in the call
encryptPrepareSharedComponents(t, saltId, ivId) ==
    WithComponents(t, validateSecretKey(t.secretKey),
                   validateInputs(t.input, t.secretKey, "encrypt"),
                   generateBase64Salt(1),
                   validateBase64String(generateBase64Salt(1), "salt"),
                   saltId, 1)

\* encrypt, from the loaded key to the await of the argon2 hash:
\* validateEncryptionPrerequisites, then generateEncryptionComponents
encryptPrepare(t, saltId, ivId) ==
    WithComponents(t, validateSecretKey(t.secretKey),
                   validateInputs(t.input, t.secretKey, "encrypt"),
                   generateBase64Salt(saltId),
                   validateBase64String(generateBase64Salt(saltId), "salt"),
                   saltId, ivId)

\* the call t of encrypt once the keys d are derived
WithPayload(t, d) ==
    IF Failed(d.err) THEN Throw(t, d.err, <<>>)
    ELSE [t EXCEPT !.pc = "done",
                   !.encryptionKey = d.encryptionKey,
                   !.hmacKey = d.hmacKey,
                   !.out = createEncryptedPayload(t.input, t.salt, t.iv,
                                                  d.encryptionKey, d.hmacKey),
                   !.trace = @ \o <<"createEncryptedPayload",
                                    "encryptBuffer", "prepareHMACData",
                                    "computeHMAC", "formatEncryptedPayload">>]

\* encrypt, from the argon2 hash to the return: createEncryptedPayload
encryptFinish(t) == WithPayload(t, deriveKeysWithArgon2(t.secretKey, t.salt))

\* variant of WithParsed that goes on whatever parseEncryptedData answered
WithParsedUnchecked(t, k, v, p, b) ==
    IF Failed(k) THEN Throw(t, k, <<"validateSecretKey">>)
    ELSE IF Failed(v)
    THEN Throw(t, v, <<"validateSecretKey", "validateInputs">>)
    ELSE IF Failed(b)
    THEN Throw(t, b, <<"validateSecretKey", "validateInputs",
                        "parseEncryptedData", "deriveKeysWithArgon2">>)
    ELSE [t EXCEPT !.pc = "hashing",
                   !.salt = p.salt, !.iv = p.iv,
                   !.cipherText = p.cipherText,
                   !.receivedHmac = p.receivedHmac,
                   !.trace = @ \o <<"validateSecretKey", "validateInputs",
                                    "parseEncryptedData",
                                    "deriveKeysWithArgon2", "argon2Hashing">>]

\* the call t of decrypt after the checks k (validateSecretKey) and v
\* (validateInputs), the parse p and the salt check b, the first statement
\* of deriveKeysWithArgon2
WithParsed(t, k, v, p, b) ==
    IF Failed(k) THEN Throw(t, k, <<"validateSecretKey">>)
    ELSE IF Failed(v)
    THEN Throw(t, v, <<"validateSecretKey", "validateInputs">>)
    ELSE IF Failed(p.err)
    THEN Throw(t, p.err, <<"validateSecretKey", "validateInputs",
                            "parseEncryptedData">>)
    ELSE IF Failed(b)
    THEN Throw(t, b, <<"validateSecretKey", "validateInputs",
                        "parseEncryptedData", "deriveKeysWithArgon2">>)
    ELSE [t EXCEPT !.pc = "hashing",
                   !.salt = p.salt, !.iv = p.iv,
                   !.cipherText = p.cipherText,
                   !.receivedHmac = p.receivedHmac,
                   !.trace = @ \o <<"validateSecretKey", "validateInputs",
                                    "parseEncryptedData",
                                    "deriveKeysWithArgon2", "argon2Hashing">>]

\* the salt check deriveKeysWithArgon2 starts with, on the parsed salt
ParsedSaltCheck(p) == validateBase64String(p.salt, "salt")

\* decrypt, from the loaded key to the await of the argon2 hash:
\* validateSecretKey, validateInputs, parseEncryptedData
decryptPrepare(t) ==
    WithParsed(t, validateSecretKey(t.secretKey),
               validateInputs(t.input, t.secretKey, "decrypt"),
               parseEncryptedData(t.input),
               ParsedSaltCheck(parseEncryptedData(t.input)))

\* the call u of decrypt, holding the derived keys, after the answer h of
\* verifyHMAC
WithVerdict(u, h) ==
    IF Failed(h) THEN Throw(u, h, <<"verifyHMAC">>)
    ELSE [u EXCEPT !.pc = "verified",
                   !.macChecked = <<u.salt, u.iv, u.cipherText>>,
                   !.trace = @ \o <<"verifyHMAC">>]

\* variant of WithKeys that goes on to the decryption without verifyHMAC
WithKeysUngated(t, d) ==
    IF Failed(d.err) THEN Throw(t, d.err, <<>>)
    ELSE [t EXCEPT !.pc = "verified",
                   !.encryptionKey = d.encryptionKey,
                   !.hmacKey = d.hmacKey]

\* the call t of decrypt once the keys d are derived: verifyHMAC
WithKeys(t, d) ==
    IF Failed(d.err) THEN Throw(t, d.err, <<>>)
    ELSE WithVerdict([t EXCEPT !.encryptionKey = d.encryptionKey,
                               !.hmacKey = d.hmacKey],
                     verifyHMAC(t.salt, t.iv, t.cipherText, t.receivedHmac,
                                d.hmacKey))

\* variant of decryptVerify that takes the keys derived once, from the salt
\* of the first draw, instead of deriving them from the salt of the call
decryptVerifySharedKeys(t) ==
    WithKeys(t, deriveKeysWithArgon2(t.secretKey, generateBase64Salt(1)))

\* decrypt, from the argon2 hash to the end of verifyHMAC
decryptVerify(t) == WithKeys(t, deriveKeysWithArgon2(t.secretKey, t.salt))

\* the call u of decrypt after the answer r of performDecryption
WithPlaintext(u, r) ==
    IF Failed(r.err)
    THEN Throw(u, r.err, <<"performDecryption", "decryptBuffer">>)
    ELSE [u EXCEPT !.pc = "done",
                   !.out = TextDecode(r.bytes),
                   !.trace = @ \o <<"performDecryption", "decryptBuffer",
                                    "TextDecoder.decode">>]

\* decrypt, from the verified MAC to the return: performDecryption and the
\* decoding of the buffer
decryptPerform(t) ==
    WithPlaintext([t EXCEPT !.aeadInput = <<t.iv, t.cipherText>>],
                  performDecryption(t.iv, t.encryptionKey, t.cipherText))

\* CryptoService.encrypt, one step
encrypt(t, sec, saltId, ivId) ==
    IF t.pc = "start" THEN loadSecretKey(t, sec)
    ELSE IF t.pc = "keyLoaded" THEN encryptPrepare(t, saltId, ivId)
    ELSE IF t.pc = "hashing" THEN encryptFinish(t)
    ELSE t

\* CryptoService.decrypt, one step
decrypt(t, sec) ==
    IF t.pc = "start" THEN loadSecretKey(t, sec)
    ELSE IF t.pc = "keyLoaded" THEN decryptPrepare(t)
    ELSE IF t.pc = "hashing" THEN decryptVerify(t)
    ELSE IF t.pc = "verified" THEN decryptPerform(t)
    ELSE t

Advance(t, sec, saltId, ivId) ==
    IF t.op = "encrypt" THEN encrypt(t, sec, saltId, ivId) ELSE decrypt(t, sec)

\* variant of RunCall that starts a call that threw once more
RECURSIVE RunCallRetrying(_, _, _, _)
RunCallRetrying(t, sec, saltId, ivId) ==
    IF t.pc = "done" THEN t
    ELSE IF t.pc = "failed"
    THEN IF Len(SelectSeq(t.trace, LAMBDA n : n = "getSecretKeyFromEnvironment")) > 1
         THEN t
         ELSE RunCallRetrying([t EXCEPT !.pc = "start", !.err = NoError],
                              sec, saltId, ivId)
    ELSE RunCallRetrying(Advance(t, sec, saltId, ivId), sec, saltId, ivId)

\* a call run from its start to its return or throw, nothing interleaved
RECURSIVE RunCall(_, _, _, _)
RunCall(t, sec, saltId, ivId) ==
    IF Settled(t) THEN t
    ELSE RunCall(Advance(t, sec, saltId, ivId), sec, saltId, ivId)

\* ------------------------------------------------------------------------
\* ErrorHandler: every throw and every catch of the calls logs the error
\* through captureError and then throws it.  loggerWorks says whether
\* logger.error returns or throws.
\* ------------------------------------------------------------------------

\* logStructuredError: try { logger.error } catch { console.error }
logStructuredError(loggerWorks) == NoError

\* logAdditionalDetails: try { logger.error } catch { logger.error }, the
\* second call under no try of its own
logAdditionalDetails(loggerWorks) ==
    IF loggerWorks THEN NoError ELSE Err("logger failure", <<>>)

\* handleLoggingFailure: try { logger.error } catch { console.error }
handleLoggingFailure(loggingError, source, loggerWorks) == NoError

\* variant of captureError without its try and catch
captureErrorUnguarded(error, source, loggerWorks) ==
    IF ~Failed(error) THEN NoError
    ELSE IF Failed(logStructuredError(loggerWorks))
    THEN logStructuredError(loggerWorks)
    ELSE logAdditionalDetails(loggerWorks)

\* what captureError throws, NoError when it returns
captureError(error, source, loggerWorks) ==
    IF ~Failed(error) THEN NoError
    ELSE IF Failed(logStructuredError(loggerWorks))
    THEN handleLoggingFailure(logStructuredError(loggerWorks), source, loggerWorks)
    ELSE IF Failed(logAdditionalDetails(loggerWorks))
    THEN handleLoggingFailure(logAdditionalDetails(loggerWorks), source,
                              loggerWorks)
    ELSE NoError

\* captureError(error, ...); throw error: what is thrown when captureError
\* threw c
Rethrow(error, c) == IF Failed(c) THEN c ELSE error

\* the error after the throw (logAndThrow) and the catch blocks it passes,
\* innermost first
RECURSIVE Propagated(_, _, _)
Propagated(error, sources, loggerWorks) ==
    IF sources = <<>> THEN error
    ELSE Propagated(Rethrow(error, captureError(error, Head(sources), loggerWorks)),
                    Tail(sources), loggerWorks)

\* the sources of the captureError calls inside CryptoEngine for the error
\* e: logAndThrow or the catch around the library call, then the catch
\* blocks of the functions it leaves
EngineSources(e) ==
    IF e.msg = "Secret key variable not found in environment file"
    THEN <<"CryptoEngine.getSecretKeyFromEnvironment", "getSecretKeyFromEnvironment">>
    ELSE IF e.msg \in {"Secret key must be a non-empty string",
                       "Secret key must be at least 16 characters long"}
    THEN <<"CryptoEngine.validateSecretKey">>
    ELSE IF e.msg = "Value must be a non-empty string"
    THEN <<"CryptoEngine.validateInputs">>
    ELSE IF e.msg \in {"must be a non-empty string", "is not a valid base64 string"}
    THEN <<"CryptoEngine.validateBase64String", "deriveKeysWithArgon2">>
    ELSE IF e.msg = "Invalid salt length"
    THEN <<"argon2Hashing", "deriveKeysWithArgon2">>
    ELSE IF e.msg = "Authentication failed: HMAC mismatch - Invalid key or tampered data"
    THEN <<"CryptoEngine.verifyHMAC", "verifyHMAC">>
    ELSE IF e.msg = "The operation failed for an operation-specific reason"
    THEN <<"decryptBuffer">>
    ELSE <<"CryptoEngine.validateEncryptedComponents">>

\* the catch of CryptoService the error of the call t passes: the whole of
\* encrypt is inside its try, decrypt loads and checks the key and the
\* input before its try
ServiceSources(t) ==
    IF t.op = "encrypt" THEN <<"encrypt">>
    ELSE IF InTraceOf(t.trace, "parseEncryptedData") THEN <<"decrypt">>
    ELSE <<>>

\* the call t as its caller sees it end
Surface(t, loggerWorks) ==
    IF t.pc # "failed" THEN t
    ELSE [t EXCEPT !.err = Propagated(t.err,
                                      EngineSources(t.err) \o ServiceSources(t),
                                      loggerWorks)]

\* ------------------------------------------------------------------------
\* State
\* ------------------------------------------------------------------------

VARIABLES
    secrets,    \* the secret file: key variable -> stored passphrase
    rngPool,    \* the draws the secure random source has not yet returned
    stored,     \* the string kept where the envelope is stored
    origin,     \* the encrypt call that produced the stored envelope
    tampered,   \* the position of stored changed since, 0 if none, -1 when
                \* its nonce and cipherText were cut anew
    last,       \* the last call of encrypt or decrypt that ended
    batch,      \* the encryptMultiple or decryptMultiple call in progress
    items,      \* its per-item calls, by position
    order,      \* the positions of its items in the order they ended
    produced,   \* the encrypt calls of batches that returned, in the order
                \* they ended
    flow,       \* the stage, its environment file and the last call of
                \* CryptoCoordinator
    compared,   \* the last call of constantTimeCompare made alone, and the
                \* lengths, first difference and operations of the one before
    manager,    \* the EnvironmentFileManager instance, the files on disk and
                \* the calls of initialize made so far
    errors      \* the caches of ErrorCacheManager, the log, and the calls of
                \* captureError made since the cache was last cleared

vars ==
    <<secrets, rngPool, stored, origin, tampered, last, batch, items, order,
      produced, flow, compared, manager, errors>>

\* ------------------------------------------------------------------------
\* Bounds and inputs
\* ------------------------------------------------------------------------

\* draws of each kind (salt, iv) the random source can make for single calls
NumRandom == 1
\* items of a batch
MaxBatch == 2

KeyVars == {"DEV_SECRET_KEY", "QA_SECRET_KEY", "UAT_SECRET_KEY", "PROD_SECRET_KEY"}

\* "0123456789abcdef": 16 characters
Passphrase1 == [i \in 1..16 |-> IF i <= 10 THEN 47 + i ELSE 86 + i]
\* 17 times "f"
Passphrase2 == [i \in 1..17 |-> 102]
\* 15 characters: too short
PassphraseShort == Take(Passphrase1, 15)

SecretFile ==
    [v \in KeyVars |->
        IF v = "DEV_SECRET_KEY" THEN Passphrase1
        ELSE IF v = "QA_SECRET_KEY" THEN Passphrase2
        ELSE IF v = "UAT_SECRET_KEY" THEN PassphraseShort
        ELSE <<>>]

\* "", "hi", U+FEFF "a", an unpaired high surrogate
Plaintexts == {<<>>, <<104, 105>>, <<65279, 97>>, <<55296>>}

B64Sample == <<81, 85, 74, 68>>

\* strings that are no envelope
MalformedInputs ==
    {<<>>,
     <<104, 105>>,
     PREFIX,
     B64Sample \o <<58>> \o B64Sample \o <<58>> \o B64Sample \o <<58>> \o B64Sample,
     <<69, 78, 67, 49, 58>> \o B64Sample \o <<58>> \o B64Sample \o <<58>>
         \o B64Sample \o <<58>> \o B64Sample,
     PREFIX \o B64Sample \o <<58>> \o B64Sample \o <<58>> \o B64Sample,
     PREFIX \o B64Sample \o <<58>> \o B64Sample \o <<58>> \o B64Sample \o <<58>>
         \o B64Sample \o <<58>> \o B64Sample,
     PREFIX \o B64Sample \o <<58, 58>> \o B64Sample \o <<58>> \o B64Sample,
     PREFIX \o B64Sample \o <<58>> \o <<81, 33, 74, 68>> \o <<58>> \o B64Sample
         \o <<58>> \o B64Sample,
     PREFIX \o B64Sample \o <<58>> \o B64Sample \o <<58>> \o B64Sample \o <<58>>
         \o B64Sample,
     PREFIX \o B64Sample \o <<58, 58>> \o <<81, 33, 74, 68>> \o <<58>> \o B64Sample}

NoCall == NewTask("none", <<>>, "")

\* no stage file and no call of CryptoCoordinator.  before is the file when
\* the last call began, passed the values it handed to CryptoService.encrypt,
\* written whether it wrote the file, returned the key it returned,
\* generated the number of keys generated so far, and previous the call made
\* before it.
NoFlow ==
    [stage |-> "dev", file |-> <<>>, op |-> "none", status |-> "none",
     err |-> NoError, names |-> <<>>, before |-> <<>>, keyStored |-> FALSE,
     passed |-> <<>>, written |-> FALSE, returned |-> <<>>, generated |-> 0,
     previous |-> [op |-> "none", status |-> "none", names |-> <<>>]]
\* constantTimeCompare not called alone yet
NoCompare ==
    [calls |-> 0, firstValue |-> <<>>, secondValue |-> <<>>, result |-> FALSE,
     operations |-> 0,
     before |-> [lengths |-> <<0, 0>>, difference |-> 0, operations |-> 0]]
\* the EnvironmentFileManager instance as constructed, initialize not called
NoManager ==
    [isCI |-> FALSE, env |-> "",
     disk |-> [base |-> "missing", stage |-> "missing"],
     initialized |-> FALSE, loadedFiles |-> <<>>, calls |-> <<>>]
\* the caches of ErrorCacheManager as the class is loaded, nothing captured
NoErrors ==
    [loggedErrors |-> <<>>, sanitizedMessages |-> {}, captured |-> <<>>,
     log |-> <<>>, evictions |-> 0, calls |-> 0, cleared |-> FALSE,
     insert |-> [key |-> 0, before |-> <<>>]]
NoBatch == [op |-> "none", keyVar |-> "", status |-> "none", result |-> <<>>,
            err |-> NoError]

Pool(n) == {"salt", "iv"} \X (1..n)
Unused(pool, kind) == {d[2] : d \in {e \in pool : e[1] = kind}}
\* the next draw of a kind: the draws are numbered in the order they are
\* made
NextIds(pool, kind) ==
    {id \in Unused(pool, kind) : \A other \in Unused(pool, kind) : id <= other}
SaltIds(pool) == NextIds(pool, "salt")
IvIds(pool) == NextIds(pool, "iv")

\* the draws a call made
Drawn(t) ==
    IF t.drawn = <<>> THEN {}
    ELSE {<<"salt", t.drawn[1]>>, <<"iv", t.drawn[2]>>}

\* the characters put in place of the character c of an envelope component:
\* the next character of the alphabet, the padding character, and one
\* outside the alphabet
Replacements(c) ==
    {IF IsB64Char(c) THEN B64Char((B64Val(c) + 1) % 64) ELSE 65, PAD, 33} \ {c}

ReplaceAt(s, i, c) == [s EXCEPT ![i] = c]

\* ------------------------------------------------------------------------
\* Single calls
\* ------------------------------------------------------------------------

Init ==
    /\ secrets = SecretFile
    /\ rngPool = Pool(NumRandom)
    /\ stored \in MalformedInputs
    /\ origin = NoCall
    /\ tampered = 0
    /\ last = NoCall
    /\ batch = NoBatch
    /\ items = <<>>
    /\ order = <<>>
    /\ produced = <<>>
    /\ flow = NoFlow
    /\ compared = NoCompare
    /\ manager = NoManager
    /\ errors = NoErrors

\* CryptoService.encrypt(value, secretKeyVariable); the envelope returned
\* is stored
Encrypt ==
    \E value \in Plaintexts, keyVar \in KeyVars :
    \E saltId \in SaltIds(rngPool), ivId \in IvIds(rngPool) :
    \E call \in {RunCall(NewTask("encrypt", value, keyVar), secrets, saltId, ivId)} :
    \E loggerWorks \in BOOLEAN :
    \E t \in {Surface(call, loggerWorks)} :
            /\ last' = t
            /\ rngPool' = rngPool \ Drawn(t)
            /\ IF t.pc = "done"
               THEN stored' = t.out /\ origin' = t /\ tampered' = 0
               ELSE UNCHANGED <<stored, origin, tampered>>
            /\ UNCHANGED <<errors, manager, compared, flow, secrets, batch, items, order, produced>>

\* one character of one component of the stored envelope is changed
Tamper ==
    /\ origin # NoCall
    /\ tampered = 0
    /\ \E i \in (Len(PREFIX) + 1)..Len(stored) :
           /\ stored[i] # SEPARATOR
           /\ \E c \in Replacements(stored[i]) :
                  /\ stored' = ReplaceAt(stored, i, c)
                  /\ tampered' = i
    /\ UNCHANGED <<errors, manager, compared, flow, secrets, rngPool, origin, last, batch, items, order, produced>>

\* CryptoService.decrypt(encryptedData, secretKeyVariable) of the stored
\* string
Decrypt ==
    \E keyVar \in KeyVars :
    \E call \in {RunCall(NewTask("decrypt", stored, keyVar), secrets, 0, 0)} :
    \E loggerWorks \in BOOLEAN :
        /\ last' = Surface(call, loggerWorks)
        /\ UNCHANGED <<errors, manager, compared, flow, secrets, rngPool, stored, origin, tampered, batch, items,
                       order, produced>>

\* the envelope of the parse p whose nonce component is the first n bytes
\* of framed, the bytes of its nonce followed by those of its cipherText,
\* and whose cipherText component is the rest
Recut(p, framed, n) ==
    formatEncryptedPayload(p.salt, Base64Encode(Take(framed, n)),
                           Base64Encode(Drop(framed, n)), p.receivedHmac)

\* the stored envelope is replaced by one that carries the same bytes in
\* the same order, with the limit between the nonce and the cipherText one
\* byte earlier or later
ShiftBoundary ==
    /\ origin # NoCall
    /\ tampered = 0
    /\ \E n \in {WEB_CRYPTO_IV - 1, WEB_CRYPTO_IV + 1} :
       \E p \in {parseEncryptedData(stored)} :
           stored' = Recut(p, Base64Decode(p.iv) \o Base64Decode(p.cipherText), n)
    /\ tampered' = -1
    /\ UNCHANGED <<errors, manager, compared, flow, secrets, rngPool, origin, last, batch, items, order, produced>>

Next == Encrypt \/ Tamper \/ ShiftBoundary \/ Decrypt

Spec == Init /\ [][Next]_vars

\* ------------------------------------------------------------------------
\* Batches: encryptMultiple and decryptMultiple start one call per element
\* and await Promise.all of them; the calls advance one await at a time, in
\* any interleaving
\* ------------------------------------------------------------------------

\* the sequences over S of length at most n
SeqsUpTo(S, n) == UNION {[1..k -> S] : k \in 0..n}

\* "", "hi", "a"
BatchPlaintexts == {<<>>, <<104, 105>>, <<97>>}
BatchKeyVars == {"DEV_SECRET_KEY", "QA_SECRET_KEY", "UAT_SECRET_KEY"}
\* "hi": no envelope
BatchMalformed == {<<104, 105>>}

\* the envelopes returned so far
Envelopes == {produced[k].out : k \in 1..Len(produced)}

\* the envelope of the parse p with the last byte of its nonce moved to
\* the front of its cipherText
RecutOf(p) ==
    Recut(p, Base64Decode(p.iv) \o Base64Decode(p.cipherText), WEB_CRYPTO_IV - 1)

\* the envelopes returned so far, cut anew
RecutEnvelopes == {RecutOf(parseEncryptedData(e)) : e \in Envelopes}

AnyFailed(its) == \E i \in 1..Len(its) : its[i].pc = "failed"
AllDone(its) == \A i \in 1..Len(its) : its[i].pc = "done"
AllSettled(its) == \A i \in 1..Len(its) : Settled(its[i])

\* the position of the item that was the first to throw
FirstFailed(its, ord) ==
    ord[CHOOSE k \in 1..Len(ord) :
            /\ its[ord[k]].pc = "failed"
            /\ \A j \in 1..(k - 1) : its[ord[j]].pc # "failed"]

\* variant of BatchResult that lists the values in the order the calls ended
BatchResultInCompletionOrder(its, ord) ==
    [k \in 1..Len(ord) |-> its[ord[k]].out]

\* the array Promise.all fulfils with: the value of the call at each
\* position of the input
BatchResult(its, ord) == [i \in 1..Len(its) |-> its[i].out]

\* the values of the calls that returned, by position
Successes(its) == SelectSeq(its, LAMBDA t : t.pc = "done")

\* variant of Settle that waits for every call and fulfils with the values
\* of those that returned (Promise.allSettled, filtered)
SettleKeepingSuccesses(b, its, ord) ==
    IF b.status # "running" \/ ~AllSettled(its) THEN b
    ELSE [b EXCEPT !.status = "fulfilled",
                   !.result = [k \in 1..Len(Successes(its)) |->
                                  Successes(its)[k].out]]

\* Promise.all after a step of one of its calls: it rejects with the error
\* of the first call that throws, and fulfils once every call has returned
Settle(b, its, ord) ==
    IF b.status # "running" THEN b
    ELSE IF AnyFailed(its)
    THEN [b EXCEPT !.status = "rejected", !.err = its[FirstFailed(its, ord)].err]
    ELSE IF AllDone(its)
    THEN [b EXCEPT !.status = "fulfilled", !.result = BatchResult(its, ord)]
    ELSE b

\* the catch of decryptMultiple around Promise.all, when the batch b becomes
\* the rejected batch c; encryptMultiple has none
BatchCaught(b, c, loggerWorks) ==
    IF b.status = "running" /\ c.status = "rejected" /\ c.op = "decryptMultiple"
    THEN [c EXCEPT !.err = Propagated(@, <<"decryptMultiple">>, loggerWorks)]
    ELSE c

NewBatch(op, keyVar, n) ==
    [op |-> op, keyVar |-> keyVar,
     status |-> IF n = 0 THEN "fulfilled" ELSE "running",
     result |-> <<>>, err |-> NoError]

InitBatch ==
    /\ secrets = SecretFile
    /\ rngPool = Pool(MaxBatch)
    /\ stored = <<>>
    /\ origin = NoCall
    /\ tampered = 0
    /\ last = NoCall
    /\ batch = NoBatch
    /\ items = <<>>
    /\ order = <<>>
    /\ produced = <<>>
    /\ flow = NoFlow
    /\ compared = NoCompare
    /\ manager = NoManager
    /\ errors = NoErrors

\* CryptoService.encryptMultiple(values, secretKeyVariable): one encrypt
\* call per value, started in order
EncryptMultiple ==
    /\ AllSettled(items)
    /\ \E values \in SeqsUpTo(BatchPlaintexts, MaxBatch), keyVar \in BatchKeyVars :
           /\ Cardinality(Unused(rngPool, "salt")) >= Len(values)
           /\ Cardinality(Unused(rngPool, "iv")) >= Len(values)
           /\ batch' = NewBatch("encryptMultiple", keyVar, Len(values))
           /\ items' = [i \in 1..Len(values) |->
                            NewTask("encrypt", values[i], keyVar)]
           /\ order' = <<>>
    /\ UNCHANGED <<errors, manager, compared, flow, secrets, rngPool, stored, origin, tampered, last, produced>>

\* CryptoService.decryptMultiple(encryptedValues, secretKeyVariable): an
\* empty array is answered at once, otherwise one decrypt call per element
DecryptMultiple ==
    /\ AllSettled(items)
    /\ \E encryptedValues \in SeqsUpTo(Envelopes \cup RecutEnvelopes \cup BatchMalformed,
                                       MaxBatch),
          keyVar \in BatchKeyVars :
           /\ batch' = NewBatch("decryptMultiple", keyVar, Len(encryptedValues))
           /\ items' = [i \in 1..Len(encryptedValues) |->
                            NewTask("decrypt", encryptedValues[i], keyVar)]
           /\ order' = <<>>
    /\ UNCHANGED <<errors, manager, compared, flow, secrets, rngPool, stored, origin, tampered, last, produced>>

\* the draws the next step of the call t can make
StepSaltIds(t, pool) ==
    IF t.op = "encrypt" /\ t.pc = "keyLoaded" THEN SaltIds(pool) ELSE {0}
StepIvIds(t, pool) ==
    IF t.op = "encrypt" /\ t.pc = "keyLoaded" THEN IvIds(pool) ELSE {0}

\* the call at position i runs to its next await, or to its end; Promise.all
\* sees it end.  The other calls go on after a rejection.
Step ==
    \E i \in 1..Len(items) :
        /\ ~Settled(items[i])
        /\ \E saltId \in StepSaltIds(items[i], rngPool),
              ivId \in StepIvIds(items[i], rngPool) :
           \E call \in {Advance(items[i], secrets, saltId, ivId)} :
           \E loggerWorks \in BOOLEAN :
           \E t \in {Surface(call, loggerWorks)} :
               /\ items' = [items EXCEPT ![i] = t]
               /\ rngPool' = rngPool \ Drawn(t)
               /\ order' = IF Settled(t) THEN Append(order, i) ELSE order
               /\ batch' = BatchCaught(batch, Settle(batch, items', order'),
                                       loggerWorks)
               /\ produced' = IF t.op = "encrypt" /\ t.pc = "done"
                               THEN Append(produced, t) ELSE produced
        /\ UNCHANGED <<errors, manager, compared, flow, secrets, stored, origin, tampered, last>>

NextBatch == EncryptMultiple \/ DecryptMultiple \/ Step

SpecBatch == InitBatch /\ [][NextBatch]_vars

\* ------------------------------------------------------------------------
\* CryptoCoordinator: the secret key of the current stage is generated and
\* stored, then variables of the stage's environment file are encrypted.
\* A line of the file is a key and a value; a comment or blank line has no
\* key.
\* ------------------------------------------------------------------------

\* encryptions the calls of one behaviour can make
MaxEncryptions == 2
\* keys one behaviour can generate
MaxKeys == 2

\* the stages dev, qa, uat and prod of ENVIRONMENT_STAGES; preprod is handled
\* like them
Stages == {"dev", "qa", "uat", "prod"}

\* the values of process.env.ENV: unset, a stage whose key is stored, a
\* stage without key, and a word that names no stage
EnvValues == {"", "dev", "prod", "staging"}

getCurrentEnvironmentStage(env) == IF env \in Stages THEN env ELSE "dev"

getSecretVariables ==
    [stage \in Stages |->
        IF stage = "dev" THEN "DEV_SECRET_KEY"
        ELSE IF stage = "qa" THEN "QA_SECRET_KEY"
        ELSE IF stage = "uat" THEN "UAT_SECRET_KEY"
        ELSE "PROD_SECRET_KEY"]

getCurrentEnvSecretKey(stage) == getSecretVariables[stage]

\* SecureKeyGenerator.generateBase64SecretKey: SECRET_KEY random bytes,
\* base64
generateBase64SecretKey(id) == Base64Encode(RandomBytes(id, SECRET_KEY))

\* SecretFileManager.storeEnvironmentKey(keyVar, key, {skipIfExists})
storeEnvironmentKey(sec, keyVar, key, skipIfExists) ==
    IF skipIfExists /\ Len(sec[keyVar]) > 0 THEN sec
    ELSE [sec EXCEPT ![keyVar] = key]

\* SecretFileManager.ensureSecretKeyExists(keyVar)
ensureSecretKeyExists(sec, keyVar) ==
    IF Len(sec[keyVar]) = 0
    THEN Err("Secret key not found in secret file", <<keyVar>>)
    ELSE NoError

IsSpace(c) == c \in {9, 10, 13, 32}

RECURSIVE TrimStart(_)
TrimStart(s) ==
    IF Len(s) > 0 /\ IsSpace(s[1]) THEN TrimStart(Tail(s)) ELSE s

RECURSIVE TrimEnd(_)
TrimEnd(s) ==
    IF Len(s) > 0 /\ IsSpace(s[Len(s)]) THEN TrimEnd(Take(s, Len(s) - 1)) ELSE s

\* value?.trim() || ""
getTrimmedValue(value) == TrimEnd(TrimStart(value))

\* parts.every((part) => part && this.isValidBase64(part))
EveryPartBase64(parts) ==
    \A i \in 1..Len(parts) : Len(parts[i]) > 0 /\ isValidBase64(parts[i])

\* CryptoEngine.isEncrypted
isEncrypted(value) ==
    /\ Len(value) > 0
    /\ StartsWith(value, PREFIX)
    /\ Len(Split(Substring(value, Len(PREFIX)), SEPARATOR)) = EXPECTED_PARTS
    /\ EveryPartBase64(Split(Substring(value, Len(PREFIX)), SEPARATOR))

\* variant of isAlreadyEncrypted that asks CryptoEngine.isEncrypted
isAlreadyEncryptedStrict(value) == isEncrypted(value)

\* variant of isAlreadyEncrypted that takes every non-empty value for encrypted
isAlreadyEncryptedNonEmpty(value) == Len(value) > 0

isAlreadyEncrypted(value) == Len(value) > 0 /\ StartsWith(value, PREFIX)

\* StagesFileManager.extractEnvironmentVariables: the lines that set a
\* variable
extractEnvironmentVariables(envFileLines) ==
    SelectSeq(envFileLines, LAMBDA l : l.key # "")

\* StagesFileManager.findEnvironmentVariableByKey: the variable of that key,
\* if any
findEnvironmentVariableByKey(allEnvVariables, lookup) ==
    SelectSeq(allEnvVariables, LAMBDA v : v.key = lookup)

HasKey(variables, key) == \E i \in 1..Len(variables) : variables[i].key = key

\* the loop of resolveVariablesToEncrypt over the requested names:
\* candidateVariables[name] = foundValue
RECURSIVE Candidates(_, _, _)
Candidates(allEnvVariables, envVariables, candidateVariables) ==
    IF envVariables = <<>> THEN candidateVariables
    ELSE Candidates(
             allEnvVariables, Tail(envVariables),
             IF HasKey(candidateVariables, Head(envVariables))
             THEN candidateVariables
             ELSE candidateVariables
                  \o findEnvironmentVariableByKey(allEnvVariables,
                                                  Head(envVariables)))

\* variant of filterEncryptableVariables that skips the empty values only
filterNonEmptyVariables(candidateVariables) ==
    SelectSeq(candidateVariables,
              LAMBDA v : Len(getTrimmedValue(v.value)) > 0)

filterEncryptableVariables(candidateVariables) ==
    SelectSeq(candidateVariables,
              LAMBDA v : /\ Len(getTrimmedValue(v.value)) > 0
                         /\ ~isAlreadyEncrypted(getTrimmedValue(v.value)))

resolveVariablesToEncrypt(allEnvVariables, envVariables) ==
    filterEncryptableVariables(
        IF Len(envVariables) = 0 THEN allEnvVariables
        ELSE Candidates(allEnvVariables, envVariables, <<>>))

\* this.getTrimmedValue(value) || value
ValueToEncrypt(value) ==
    IF Len(getTrimmedValue(value)) > 0 THEN getTrimmedValue(value) ELSE value

\* the ids of the set S in increasing order
RECURSIVE Ascending(_)
Ascending(S) ==
    IF S = {} THEN <<>>
    ELSE <<CHOOSE m \in S : \A o \in S : m <= o>>
         \o Ascending(S \ {CHOOSE m \in S : \A o \in S : m <= o})

\* the call u of encrypt, run up to the await of argon2.hash, when the hash
\* throws for want of memory
HashThrows(u) ==
    IF u.pc = "hashing" THEN Throw(u, Err("Memory allocation error", <<>>), <<>>)
    ELSE u

\* the loop of encryptVariableValuesInFileLines: the variables are encrypted
\* one after the other, calls lists the calls of CryptoService.encrypt made;
\* the first call that throws ends the loop.  starved: the random source has
\* no draw left.  fault is the number of the call in which argon2.hash
\* throws, 0 if in none.
RECURSIVE EncryptEach(_, _, _, _, _, _, _)
EncryptEach(variables, secretKeyVariable, sec, ids, loggerWorks, fault, calls) ==
    IF Len(calls) > 0 /\ calls[Len(calls)].pc = "failed"
    THEN [err |-> calls[Len(calls)].err, calls |-> calls, starved |-> FALSE]
    ELSE IF variables = <<>>
    THEN [err |-> NoError, calls |-> calls, starved |-> FALSE]
    ELSE IF ids = <<>> THEN [err |-> NoError, calls |-> calls, starved |-> TRUE]
    ELSE EncryptEach(
             Tail(variables), secretKeyVariable, sec, Tail(ids), loggerWorks, fault,
             Append(calls,
                    Surface(IF Len(calls) + 1 = fault
                            THEN HashThrows(Advance(
                                     Advance(NewTask("encrypt",
                                                     ValueToEncrypt(Head(variables).value),
                                                     secretKeyVariable),
                                             sec, Head(ids), Head(ids)),
                                     sec, Head(ids), Head(ids)))
                            ELSE RunCall(NewTask("encrypt",
                                                 ValueToEncrypt(Head(variables).value),
                                                 secretKeyVariable),
                                         sec, Head(ids), Head(ids)),
                            loggerWorks)))

\* the error of the loop r, if its last call threw
LoopError(r) ==
    IF Len(r.calls) > 0 /\ r.calls[Len(r.calls)].pc = "failed"
    THEN r.calls[Len(r.calls)].err
    ELSE r.err

\* the envelope encrypted for the variable of that key, <<>> if none
EncryptedValue(variables, calls, key) ==
    IF \E i \in 1..Len(calls) : variables[i].key = key
    THEN calls[CHOOSE i \in 1..Len(calls) : variables[i].key = key].out
    ELSE <<>>

\* StagesFileManager.updateMultipleEnvironmentVariables: the value of each
\* encrypted variable is replaced in its line
updateMultipleEnvironmentVariables(envFileLines, variables, calls) ==
    [i \in 1..Len(envFileLines) |->
        IF EncryptedValue(variables, calls, envFileLines[i].key) # <<>>
        THEN [envFileLines[i] EXCEPT
                 !.value = EncryptedValue(variables, calls, envFileLines[i].key)]
        ELSE envFileLines[i]]

\* variant of Updated that writes the values encrypted before the failure
UpdatedWithEncryptedSoFar(envFileLines, variablesToEncrypt, r) ==
    [err |-> LoopError(r),
     file |-> updateMultipleEnvironmentVariables(
                  envFileLines, variablesToEncrypt,
                  SelectSeq(r.calls, LAMBDA t : t.pc = "done")),
     calls |-> r.calls, starved |-> r.starved,
     written |-> \E i \in 1..Len(r.calls) : r.calls[i].pc = "done"]

\* encryptAndUpdateEnvironmentVariables once the loop over variablesToEncrypt
\* has answered r: the file is written when a variable was encrypted
Updated(envFileLines, variablesToEncrypt, r) ==
    IF Failed(LoopError(r)) \/ r.starved
    THEN [err |-> LoopError(r), file |-> envFileLines, calls |-> r.calls,
          starved |-> r.starved, written |-> FALSE]
    ELSE [err |-> NoError,
          file |-> IF Len(r.calls) > 0
                   THEN updateMultipleEnvironmentVariables(
                            envFileLines, variablesToEncrypt, r.calls)
                   ELSE envFileLines,
          calls |-> r.calls, starved |-> FALSE, written |-> Len(r.calls) > 0]

encryptVariableValuesInFileLines(envFileLines, variablesToEncrypt, secretKeyVariable, sec, ids, loggerWorks, fault) ==
    Updated(envFileLines, variablesToEncrypt,
            EncryptEach(variablesToEncrypt, secretKeyVariable, sec, ids,
                        loggerWorks, fault, <<>>))

encryptAndUpdateEnvironmentVariables(envFileLines, secretKeyVariable, envVariables, sec, ids, loggerWorks, fault) ==
    encryptVariableValuesInFileLines(
        envFileLines,
        resolveVariablesToEncrypt(extractEnvironmentVariables(envFileLines),
                                  envVariables),
        secretKeyVariable, sec, ids, loggerWorks, fault)

\* the draws the calls made
DrawnBy(calls) == UNION {Drawn(calls[i]) : i \in 1..Len(calls)}

\* "hi", " hi ", "", "   ", "ENC2:QUJD"
EnvValuesOfFile ==
    {<<104, 105>>, <<32, 104, 105, 32>>, <<>>, <<32, 32, 32>>, PREFIX \o B64Sample}

\* stage files: a comment, then two variables
EnvFiles ==
    {<<>>, <<[key |-> "", value |-> <<35, 32, 112>>]>>}
    \cup {<<[key |-> "", value |-> <<35, 32, 112>>],
            [key |-> "PORTAL_USERNAME", value |-> u],
            [key |-> "PORTAL_PASSWORD", value |-> w]>> :
              u \in EnvValuesOfFile, w \in {<<104, 105>>, PREFIX \o B64Sample}}

\* the lists of names asked for: none (all variables), one, two, one twice,
\* and names the file does not have
VariableNames ==
    {<<>>,
     <<"PORTAL_USERNAME">>,
     <<"PORTAL_PASSWORD", "PORTAL_USERNAME">>,
     <<"PORTAL_USERNAME", "PORTAL_USERNAME">>,
     <<"DATABASE_PASSWORD">>,
     <<"PORTAL_PASSWORD", "DATABASE_PASSWORD">>}

\* the secret file before the flow: a key generated earlier for dev, none
\* for the other stages
StoredSecrets ==
    [v \in KeyVars |->
        IF v = "DEV_SECRET_KEY" THEN generateBase64SecretKey(7) ELSE <<>>]

InitFlow ==
    /\ secrets = StoredSecrets
    /\ rngPool = Pool(MaxEncryptions)
    /\ stored = <<>>
    /\ origin = NoCall
    /\ tampered = 0
    /\ last = NoCall
    /\ batch = NoBatch
    /\ items = <<>>
    /\ order = <<>>
    /\ produced = <<>>
    /\ compared = NoCompare
    /\ manager = NoManager
    /\ errors = NoErrors
    /\ \E env \in EnvValues, file \in EnvFiles :
           flow = [NoFlow EXCEPT !.stage = getCurrentEnvironmentStage(env),
                                 !.file = file]

\* CryptoCoordinator.generateAndStoreSecretKey; written says whether the
\* secret file could be written
GenerateAndStoreSecretKey ==
    \E written \in BOOLEAN :
    \E generatedSecretKey \in {generateBase64SecretKey(8 + flow.generated)} :
    \E sec \in {IF written
                THEN storeEnvironmentKey(secrets, getCurrentEnvSecretKey(flow.stage),
                                         generatedSecretKey, TRUE)
                ELSE secrets} :
    \E e \in {IF written
              THEN ensureSecretKeyExists(sec, getCurrentEnvSecretKey(flow.stage))
              ELSE Err("Failed to write secret file", <<>>)} :
        /\ flow.generated < MaxKeys
        /\ secrets' = sec
        /\ flow' = [flow EXCEPT !.op = "generateAndStoreSecretKey",
                                !.status = IF Failed(e) THEN "failed" ELSE "done",
                                !.err = e,
                                !.names = <<>>,
                                !.before = flow.file,
                                !.keyStored = @ \/ ~Failed(e),
                                !.passed = <<>>,
                                !.written = FALSE,
                                !.returned = IF Failed(e) THEN <<>>
                                             ELSE generatedSecretKey,
                                !.generated = @ + 1,
                                !.previous = [op |-> flow.op,
                                              status |-> flow.status,
                                              names |-> flow.names]]
        /\ UNCHANGED <<errors, manager, compared, rngPool, stored, origin, tampered, last, batch, items,
                       order, produced>>

\* the flow f after the call encryptEnvironmentVariables(envVariables) that
\* ended as r
AfterRun(f, envVariables, r) ==
    [f EXCEPT !.op = "encryptEnvironmentVariables",
              !.status = IF Failed(r.err) THEN "failed" ELSE "done",
              !.err = r.err,
              !.names = envVariables,
              !.before = f.file,
              !.file = r.file,
              !.passed = [i \in 1..Len(r.calls) |-> r.calls[i].input],
              !.written = r.written,
              !.returned = <<>>,
              !.previous = [op |-> f.op, status |-> f.status, names |-> f.names]]

\* CryptoCoordinator.encryptEnvironmentVariables(envVariables)
EncryptEnvironmentVariables ==
    \E envVariables \in VariableNames, loggerWorks \in BOOLEAN :
    \E r \in {encryptAndUpdateEnvironmentVariables(
                  flow.file, getCurrentEnvSecretKey(flow.stage), envVariables,
                  secrets, Ascending(Unused(rngPool, "salt")), loggerWorks, 0)} :
        /\ ~r.starved
        /\ flow' = AfterRun(flow, envVariables, r)
        /\ rngPool' = rngPool \ DrawnBy(r.calls)
        /\ produced' = produced \o SelectSeq(r.calls, LAMBDA t : t.pc = "done")
        /\ UNCHANGED <<errors, manager, compared, secrets, stored, origin, tampered, last, batch, items,
                       order>>

\* CryptoCoordinator.encryptEnvironmentVariables(envVariables) when the key
\* derivation of one of its encrypt calls throws
EncryptionInterrupted ==
    \E envVariables \in VariableNames, loggerWorks \in BOOLEAN :
    \E fault \in 1..MaxEncryptions :
    \E r \in {encryptAndUpdateEnvironmentVariables(
                  flow.file, getCurrentEnvSecretKey(flow.stage), envVariables,
                  secrets, Ascending(Unused(rngPool, "salt")), loggerWorks, fault)} :
        /\ ~r.starved
        /\ Len(r.calls) >= fault
        /\ r.calls[fault].err.msg = "Memory allocation error"
        /\ flow' = AfterRun(flow, envVariables, r)
        /\ rngPool' = rngPool \ DrawnBy(r.calls)
        /\ produced' = produced \o SelectSeq(r.calls, LAMBDA t : t.pc = "done")
        /\ UNCHANGED <<errors, manager, compared, secrets, stored, origin, tampered, last, batch, items,
                       order>>

NextFlow == GenerateAndStoreSecretKey \/ EncryptEnvironmentVariables

SpecFlow == InitFlow /\ [][NextFlow]_vars

\* the flow with the runs that a failing key derivation interrupts
NextFlowInterrupted ==
    GenerateAndStoreSecretKey \/ EncryptEnvironmentVariables \/ EncryptionInterrupted

SpecFlowInterrupted == InitFlow /\ [][NextFlowInterrupted]_vars

\* ------------------------------------------------------------------------
\* CryptoEngine.constantTimeCompare called alone, as verifyHMAC calls it with
\* the HMAC it computed and the one it received
\* ------------------------------------------------------------------------

\* characters of the longest string compared
MaxCompareLen == 3

\* the computed value: "", "A", "AA", ...
FirstValues == {[i \in 1..n |-> 65] : n \in 0..MaxCompareLen}
\* the received value: any string of "A" and "B"
SecondValues == SeqsUpTo({65, 66}, MaxCompareLen)

\* the first position at which the strings differ, 0 if there is none among
\* the positions they both have
FirstDifference(firstValue, secondValue) ==
    IF \E i \in 1..Len(firstValue) :
           i <= Len(secondValue) /\ firstValue[i] # secondValue[i]
    THEN CHOOSE i \in 1..Len(firstValue) :
             /\ i <= Len(secondValue) /\ firstValue[i] # secondValue[i]
             /\ \A j \in 1..(i - 1) : firstValue[j] = secondValue[j]
    ELSE 0

InitCompare ==
    /\ secrets = SecretFile
    /\ rngPool = {}
    /\ stored = <<>>
    /\ origin = NoCall
    /\ tampered = 0
    /\ last = NoCall
    /\ batch = NoBatch
    /\ items = <<>>
    /\ order = <<>>
    /\ produced = <<>>
    /\ flow = NoFlow
    /\ compared = NoCompare
    /\ manager = NoManager
    /\ errors = NoErrors

\* constantTimeCompare(firstValue, secondValue)
ConstantTimeCompare ==
    \E firstValue \in FirstValues, secondValue \in SecondValues :
    \E c \in {Compared(firstValue, secondValue)} :
        /\ compared' =
               [calls |-> IF compared.calls = 0 THEN 1 ELSE 2,
                firstValue |-> firstValue, secondValue |-> secondValue,
                result |-> c.result, operations |-> c.operations,
                before |-> [lengths |-> <<Len(compared.firstValue),
                                         Len(compared.secondValue)>>,
                            difference |-> FirstDifference(compared.firstValue,
                                                           compared.secondValue),
                            operations |-> compared.operations]]
        /\ UNCHANGED <<errors, manager, secrets, rngPool, stored, origin, tampered, last,
                       batch, items, order, produced, flow>>

NextCompare == ConstantTimeCompare

SpecCompare == InitCompare /\ [][NextCompare]_vars

\* ------------------------------------------------------------------------
\* EnvironmentFileManager: loading the environment files
\* ------------------------------------------------------------------------

\* calls of initialize on the instance
MaxCalls == 2

\* what the disk holds at a path: no file, a file dotenv reads, a file for
\* which dotenv.config reports an error
FileStates == {"missing", "readable", "unreadable"}

\* path.basename(SecretFilePathResolver.getSecretFilePath()); the constants
\* under src define no SECRET_FILE_PREFIX, the template yields "undefined"
getSecretFilePath == ".env.undefined"

\* StagesFilePathResolver.getEnvironmentStages, the base names
getEnvironmentStages == [stage \in Stages |-> ".env." \o stage]

\* getStageFilePath(env)
getStageFilePath(env) ==
    IF env \notin DOMAIN getEnvironmentStages
    THEN [err |-> Err("Invalid environment stage", <<env>>), path |-> ""]
    ELSE [err |-> NoError, path |-> getEnvironmentStages[env]]

\* variant of loadEnvironmentFile that rethrows for the stage file too
loadEnvironmentFileRethrowing(fileName, fileType, onDisk, loadedFiles) ==
    IF onDisk = "missing"
    THEN [err |-> NoError, result |-> "missing", loadedFiles |-> loadedFiles]
    ELSE IF onDisk = "unreadable"
    THEN [err |-> Err("Error loading environment variables", <<fileName>>),
          result |-> "unreadable", loadedFiles |-> loadedFiles]
    ELSE [err |-> NoError, result |-> "readable",
          loadedFiles |-> Append(loadedFiles, fileName)]

\* loadEnvironmentFile from the answer of doesFileExist on: a missing file
\* is reported through onMissing; an error of dotenv.config is caught,
\* captured, and thrown again for the base file only; a file read is
\* pushed on loadedFiles.  err is the error thrown, if any.
loadEnvironmentFile(fileName, fileType, onDisk, loadedFiles) ==
    IF onDisk = "missing"
    THEN [err |-> NoError, result |-> "missing", loadedFiles |-> loadedFiles]
    ELSE IF onDisk = "unreadable"
    THEN [err |-> IF fileType = "base"
                  THEN Err("Error loading environment variables", <<fileName>>)
                  ELSE NoError,
          result |-> "unreadable", loadedFiles |-> loadedFiles]
    ELSE [err |-> NoError, result |-> "readable",
          loadedFiles |-> Append(loadedFiles, fileName)]

\* a call of initialize: where it stands, the error it threw, the value of
\* this.initialized it read, what it found for each file, the names it
\* pushed on loadedFiles and whether it set this.initialized
NewInitialize(initialized) ==
    [pc |-> "start", err |-> NoError, sawInitialized |-> initialized,
     base |-> "none", stage |-> "none", loaded |-> <<>>, setInitialized |-> FALSE]

InitManager ==
    /\ secrets = SecretFile
    /\ rngPool = {}
    /\ stored = <<>>
    /\ origin = NoCall
    /\ tampered = 0
    /\ last = NoCall
    /\ batch = NoBatch
    /\ items = <<>>
    /\ order = <<>>
    /\ produced = <<>>
    /\ flow = NoFlow
    /\ compared = NoCompare
    /\ errors = NoErrors
    /\ \E isCI \in BOOLEAN, env \in EnvValues, base \in FileStates, stage \in FileStates :
           manager = [NoManager EXCEPT !.isCI = isCI, !.env = env,
                                       !.disk = [base |-> base, stage |-> stage]]

OtherVarsOfManager ==
    <<secrets, rngPool, stored, origin, tampered, last, batch, items, order,
      produced, flow, compared, errors>>

\* initialize() is called and runs up to its first await: it returns at
\* once when initialized is set or in CI, otherwise it enters
\* loadAllEnvironments and loadEnvironmentFile for the base file, which
\* awaits doesFileExist
Initialize ==
    /\ Len(manager.calls) < MaxCalls
    /\ manager' =
           [manager EXCEPT !.calls =
               Append(@, [NewInitialize(manager.initialized) EXCEPT !.pc =
                             IF manager.initialized \/ manager.isCI
                             THEN "returned" ELSE "doesBaseExist"])]
    /\ UNCHANGED OtherVarsOfManager

\* doesFileExist has answered for the base file: loadEnvironmentFile goes
\* on; when it throws, loadAllEnvironments and initialize throw in turn
BaseFileChecked ==
    \E c \in 1..Len(manager.calls) :
    \E r \in {loadEnvironmentFile(getSecretFilePath, "base", manager.disk.base,
                                   manager.loadedFiles)} :
        /\ manager.calls[c].pc = "doesBaseExist"
        /\ manager' =
               [manager EXCEPT
                   !.loadedFiles = r.loadedFiles,
                   !.calls[c] =
                       [@ EXCEPT !.pc = IF Failed(r.err) THEN "failed" ELSE "baseDone",
                                 !.err = r.err,
                                 !.base = r.result,
                                 !.loaded = IF r.result = "readable"
                                            THEN Append(@, getSecretFilePath) ELSE @]]
        /\ UNCHANGED OtherVarsOfManager

\* loadAllEnvironments goes on after the base file: it takes the stage and
\* its path and enters loadEnvironmentFile, which awaits doesFileExist
StageFileRequested ==
    \E c \in 1..Len(manager.calls) :
    \E f \in {getStageFilePath(getCurrentEnvironmentStage(manager.env))} :
        /\ manager.calls[c].pc = "baseDone"
        /\ manager' =
               [manager EXCEPT
                   !.calls[c] =
                       [@ EXCEPT !.pc = IF Failed(f.err) THEN "failed"
                                        ELSE "doesStageExist",
                                 !.err = f.err]]
        /\ UNCHANGED OtherVarsOfManager

\* doesFileExist has answered for the stage file: loadEnvironmentFile goes
\* on and returns
StageFileChecked ==
    \E c \in 1..Len(manager.calls) :
    \E r \in {loadEnvironmentFile(
                  getStageFilePath(getCurrentEnvironmentStage(manager.env)).path,
                  "stage", manager.disk.stage, manager.loadedFiles)} :
        /\ manager.calls[c].pc = "doesStageExist"
        /\ manager' =
               [manager EXCEPT
                   !.loadedFiles = r.loadedFiles,
                   !.calls[c] =
                       [@ EXCEPT !.pc = IF Failed(r.err) THEN "failed" ELSE "stageDone",
                                 !.err = r.err,
                                 !.stage = r.result,
                                 !.loaded =
                                     IF r.result = "readable"
                                     THEN Append(@, getStageFilePath(
                                              getCurrentEnvironmentStage(manager.env)).path)
                                     ELSE @]]
        /\ UNCHANGED OtherVarsOfManager

\* loadAllEnvironments has returned: initialize sets initialized, logs the
\* result and returns
Initialized ==
    \E c \in 1..Len(manager.calls) :
        /\ manager.calls[c].pc = "stageDone"
        /\ manager' =
               [manager EXCEPT
                   !.initialized = TRUE,
                   !.calls[c] = [@ EXCEPT !.pc = "returned", !.setInitialized = TRUE]]
        /\ UNCHANGED OtherVarsOfManager

\* somebody writes, repairs or removes the base file between two steps
BaseFileChanged ==
    \E onDisk \in FileStates :
        /\ onDisk # manager.disk.base
        /\ manager' = [manager EXCEPT !.disk.base = onDisk]
        /\ UNCHANGED OtherVarsOfManager

NextManager ==
    \/ Initialize
    \/ BaseFileChecked
    \/ StageFileRequested
    \/ StageFileChecked
    \/ Initialized
    \/ BaseFileChanged

SpecManager == InitManager /\ [][NextManager]_vars

\* ------------------------------------------------------------------------
\* ErrorCacheManager: the keys of the errors logged and the messages
\* sanitized
\* ------------------------------------------------------------------------

MAX_CACHE_SIZE == 5000
\* EVICTION_RATIO = 0.4, in tenths
EVICTION_RATIO == 4

\* calls of captureError in a behaviour
MaxCaptures == 4

\* hashString: hash = ((hash << 5) - hash + str.charCodeAt(i)) & 0xffffffff.
\* The strings hashed here have at most two characters, so the value stays
\* below 2^22 and the 32-bit wrap does not come into play.
RECURSIVE HashFrom(_, _)
HashFrom(hash, str) ==
    IF str = <<>> THEN hash
    ELSE HashFrom((hash * 32 - hash) + Head(str), Tail(str))

hashString(str) == HashFrom(0, str)

\* generateErrorKey for an Error: the hash of error.stack
generateErrorKey(error) == hashString(error.stack)

\* variant of evictOldEntries that removes the newest entries
evictNewEntries(loggedErrors) ==
    Take(loggedErrors,
         Len(loggedErrors) - (Len(loggedErrors) * EVICTION_RATIO) \div 10)

\* evictOldEntries: Math.floor(size * EVICTION_RATIO) entries leave the set,
\* in the order of insertion
evictOldEntries(loggedErrors) ==
    Drop(loggedErrors, (Len(loggedErrors) * EVICTION_RATIO) \div 10)

HasKeyLogged(loggedErrors, errorKey) ==
    \E i \in 1..Len(loggedErrors) : loggedErrors[i] = errorKey

\* variant of shouldLogError that does not keep the key
shouldLogErrorForgetting(loggedErrors, error) ==
    [log |-> ~HasKeyLogged(loggedErrors, generateErrorKey(error)),
     loggedErrors |-> loggedErrors]

\* shouldLogError: log is what it returns
shouldLogError(loggedErrors, error) ==
    IF HasKeyLogged(loggedErrors, generateErrorKey(error))
    THEN [log |-> FALSE, loggedErrors |-> loggedErrors]
    ELSE [log |-> TRUE,
          loggedErrors |->
              Append(IF Len(loggedErrors) >= MAX_CACHE_SIZE
                     THEN evictOldEntries(loggedErrors) ELSE loggedErrors,
                     generateErrorKey(error))]

\* getSanitizedMessage, as to the keys of the map sanitizedMessages; the
\* text it returns is left out
getSanitizedMessage(sanitizedMessages, originalMessage) ==
    IF originalMessage = <<>> THEN sanitizedMessages
    ELSE IF originalMessage \in sanitizedMessages THEN sanitizedMessages
    ELSE IF Cardinality(sanitizedMessages) < MAX_CACHE_SIZE
    THEN sanitizedMessages \cup {originalMessage}
    ELSE sanitizedMessages

\* error.constructor.name of an Error
ErrorType == <<69, 114, 114, 111, 114>>

\* the strings captureError sanitizes when it logs: the message for
\* createErrorDetails, then errorType and stack of the additional details
Sanitized(sanitizedMessages, error) ==
    getSanitizedMessage(
        getSanitizedMessage(
            getSanitizedMessage(sanitizedMessages, error.message),
            ErrorType),
        error.stack)

\* the Error whose stack is the one-character string of code c
ErrorOf(c) == [message |-> <<c>>, stack |-> <<c>>]

\* two errors whose stacks, "Aa" and "BB", have the same hash
ErrorAa == [message |-> <<72>>, stack |-> <<65, 97>>]
ErrorBB == [message |-> <<73>>, stack |-> <<66, 66>>]

\* the errors captured: the two above and two others
Errors == {ErrorAa, ErrorBB, ErrorOf(20001), ErrorOf(20002)}

\* the keys of n other errors logged earlier, oldest first
Prefill(n) == [i \in 1..n |-> 10000 + i]
PrefillMessages(n) == {<<10000 + i>> : i \in 1..n}

\* the catch blocks an error of decryptBuffer passes, innermost first
Chain == <<"decryptBuffer", "decrypt", "decryptMultiple", "decryptCredentials">>

\* the number of calls in the list made for that error
CallsFor(captured, error) ==
    Cardinality({i \in 1..Len(captured) : captured[i].error = error})

\* the catch block that captures the error next
NextSource(captured, error) ==
    Chain[IF CallsFor(captured, error) < Len(Chain)
          THEN CallsFor(captured, error) + 1 ELSE Len(Chain)]

\* the caches are empty, or all but full with the keys and messages of
\* other errors, or full, the oldest key that of ErrorAa, logged by
\* decryptBuffer before the others
ErrorCaches ==
    {NoErrors,
     [NoErrors EXCEPT !.loggedErrors = Prefill(MAX_CACHE_SIZE - 1),
                      !.sanitizedMessages = PrefillMessages(MAX_CACHE_SIZE - 1)],
     [NoErrors EXCEPT
         !.loggedErrors = <<generateErrorKey(ErrorAa)>> \o Prefill(MAX_CACHE_SIZE - 1),
         !.sanitizedMessages =
             {ErrorAa.message, ErrorType, ErrorAa.stack}
             \cup PrefillMessages(MAX_CACHE_SIZE - 3),
         !.captured = <<[error |-> ErrorAa, source |-> Chain[1], logged |-> TRUE,
                         evictions |-> 0]>>,
         !.log = <<[error |-> ErrorAa, source |-> Chain[1]]>>]}

InitErrors ==
    /\ secrets = SecretFile
    /\ rngPool = {}
    /\ stored = <<>>
    /\ origin = NoCall
    /\ tampered = 0
    /\ last = NoCall
    /\ batch = NoBatch
    /\ items = <<>>
    /\ order = <<>>
    /\ produced = <<>>
    /\ flow = NoFlow
    /\ compared = NoCompare
    /\ manager = NoManager
    /\ errors \in ErrorCaches

OtherVarsOfErrors ==
    <<secrets, rngPool, stored, origin, tampered, last, batch, items, order,
      produced, flow, compared, manager>>

\* the state after captureError(error, source), r what shouldLogError
\* returned
AfterCapture(e, error, source, r) ==
    [e EXCEPT
        !.loggedErrors = r.loggedErrors,
        !.sanitizedMessages = IF r.log THEN Sanitized(@, error) ELSE @,
        !.evictions = IF r.log /\ Len(e.loggedErrors) >= MAX_CACHE_SIZE
                      THEN @ + 1 ELSE @,
        !.captured = Append(@, [error |-> error, source |-> source,
                                logged |-> r.log,
                                evictions |->
                                    IF r.log /\ Len(e.loggedErrors) >= MAX_CACHE_SIZE
                                    THEN e.evictions + 1 ELSE e.evictions]),
        !.log = IF r.log THEN Append(@, [error |-> error, source |-> source])
                ELSE @,
        !.calls = @ + 1,
        !.insert = IF r.log
                   THEN [key |-> generateErrorKey(error), before |-> e.loggedErrors]
                   ELSE @]

\* a catch block calls ErrorHandler.captureError(error, source)
CaptureError ==
    \E error \in Errors :
    \E r \in {shouldLogError(errors.loggedErrors, error)} :
        /\ errors.calls < MaxCaptures
        /\ errors' = AfterCapture(errors, error,
                                  NextSource(errors.captured, error), r)
        /\ UNCHANGED OtherVarsOfErrors

\* ErrorHandler.clearErrorCache()
ClearErrorCache ==
    /\ ~errors.cleared
    /\ errors.calls > 0
    /\ errors' = [errors EXCEPT !.loggedErrors = <<>>,
                                !.sanitizedMessages = {},
                                !.captured = <<>>,
                                !.evictions = 0,
                                !.cleared = TRUE,
                                !.insert = NoErrors.insert]
    /\ UNCHANGED OtherVarsOfErrors

NextErrors == CaptureError \/ ClearErrorCache

SpecErrors == InitErrors /\ [][NextErrors]_vars

\* ------------------------------------------------------------------------
\* Properties of single calls
\* ------------------------------------------------------------------------

\* the last call decrypted, under the key variable of the encrypt call, the
\* envelope that call returned
DecryptedOwnEnvelope ==
    /\ last.op = "decrypt"
    /\ origin.pc = "done"
    /\ last.input = origin.out
    /\ last.keyVar = origin.keyVar

\* C1: decrypt(encrypt(p, K), K) returns exactly p, for every non-empty
\* plaintext p and passphrase K of at least 16 characters
C1_RoundTrip ==
    (DecryptedOwnEnvelope /\ Len(origin.input) > 0 /\ Len(origin.secretKey) >= 16)
        => (last.pc = "done" /\ last.out = origin.input)

\* a round trip that returned: the plaintext began with U+FEFF and came
\* back without it
C1_BomStripped ==
    /\ DecryptedOwnEnvelope
    /\ origin.input = <<65279, 97>>
    /\ last.pc = "done"
    /\ last.out = <<97>>

InTrace(t, name) == \E i \in 1..Len(t.trace) : t.trace[i] = name

\* the position of the first entry of name in the trace of t, 0 if none
FirstInTrace(t, name) ==
    IF InTrace(t, name)
    THEN CHOOSE i \in 1..Len(t.trace) :
             t.trace[i] = name /\ \A j \in 1..(i - 1) : t.trace[j] # name
    ELSE 0

HmacMismatch(e) ==
    e.msg = "Authentication failed: HMAC mismatch - Invalid key or tampered data"

\* C2: decrypt hands the ciphertext to the AEAD decryption only after
\* verifyHMAC accepted the same salt, nonce and cipherText; when the MAC
\* check fails the AEAD decryption is not entered
C2_MacGatesAead ==
    last.op = "decrypt" =>
        /\ (InTrace(last, "performDecryption") \/ last.aeadInput # <<>>) =>
               /\ last.macChecked = <<last.salt>> \o last.aeadInput
               /\ FirstInTrace(last, "verifyHMAC") > 0
               /\ FirstInTrace(last, "verifyHMAC")
                      < FirstInTrace(last, "performDecryption")
        /\ HmacMismatch(last.err) =>
               /\ last.aeadInput = <<>>
               /\ ~InTrace(last, "performDecryption")
               /\ ~InTrace(last, "decryptBuffer")

\* a decrypt that reached the AEAD decryption
C2_AeadReached ==
    /\ last.op = "decrypt"
    /\ last.aeadInput # <<>>
    /\ InTrace(last, "decryptBuffer")

\* the last call decrypted the stored envelope, one character of one
\* component of which was changed after encrypt returned it, under the key
\* variable of the encrypt call
DecryptedTamperedEnvelope ==
    /\ last.op = "decrypt"
    /\ origin.pc = "done"
    /\ tampered > 0
    /\ last.input = stored
    /\ last.keyVar = origin.keyVar

\* C3: decrypt of an envelope that differs from the one encrypt produced in
\* exactly one character of exactly one component never succeeds
C3_TamperDetected == DecryptedTamperedEnvelope => last.pc = "failed"

\* a changed envelope that decrypt accepted, returning the plaintext
C3_TamperAccepted ==
    /\ DecryptedTamperedEnvelope
    /\ last.pc = "done"
    /\ last.out = origin.input

\* the last call decrypted the envelope encrypt returned, under a key
\* variable that holds another passphrase of at least 16 characters
DecryptedUnderOtherKey ==
    /\ last.op = "decrypt"
    /\ origin.pc = "done"
    /\ last.input = origin.out
    /\ Len(secrets[last.keyVar]) >= 16
    /\ secrets[last.keyVar] # origin.secretKey

\* C4: decrypt of an envelope under a valid passphrase other than the one it
\* was encrypted under fails with the authentication error and returns no
\* plaintext
C4_WrongKeyRejected ==
    DecryptedUnderOtherKey =>
        /\ last.pc = "failed"
        /\ HmacMismatch(last.err)
        /\ last.out = <<>>

\* a decrypt under another valid passphrase that ended
C4_WrongKeyTried ==
    /\ DecryptedUnderOtherKey
    /\ last.pc = "failed"
    /\ InTrace(last, "verifyHMAC")

\* String.prototype.startsWith(PREFIX) fails, or the rest does not split
\* into EXPECTED_PARTS parts
Malformed(encryptedData) ==
    \/ ~StartsWith(encryptedData, PREFIX)
    \/ Len(Split(Substring(encryptedData, Len(PREFIX)), SEPARATOR))
           # EXPECTED_PARTS

FormatError(e) ==
    e.msg \in {"Invalid encrypted format: Missing prefix",
               "Invalid format. Expected 4 parts"}

\* C5: a decrypt of a string without the prefix, or whose rest is not 4
\* parts, fails without entering deriveKeysWithArgon2 or the argon2 hash; when
\* the call gets as far as parseEncryptedData, that is what rejects it
C5_FailFastOnFormat ==
    (last.op = "decrypt" /\ Malformed(last.input)) =>
        /\ last.pc = "failed"
        /\ ~InTrace(last, "deriveKeysWithArgon2")
        /\ ~InTrace(last, "argon2Hashing")
        /\ last.encryptionKey = <<>> /\ last.hmacKey = <<>>
        /\ InTrace(last, "parseEncryptedData") => FormatError(last.err)
        /\ (Len(last.secretKey) >= 16 /\ Len(last.input) > 0) =>
               InTrace(last, "parseEncryptedData")

\* a decrypt of such a string that parseEncryptedData rejected for its part
\* count
C5_PartCountRejected ==
    /\ last.op = "decrypt"
    /\ Malformed(last.input)
    /\ StartsWith(last.input, PREFIX)
    /\ InTrace(last, "parseEncryptedData")
    /\ last.err.msg = "Invalid format. Expected 4 parts"

\* the number of separators in s
Separators(s) == Cardinality({i \in 1..Len(s) : s[i] = SEPARATOR})

\* the four components encrypt serialized: the salt and the nonce it
\* generated, the ciphertext of the value and the HMAC over the three
Serialized(t) ==
    <<t.salt,
      Base64Encode(t.iv),
      Base64Encode(encryptBuffer(t.iv, t.encryptionKey, t.input)),
      computeHMAC(t.hmacKey,
                  prepareHMACData(
                      t.salt, Base64Encode(t.iv),
                      Base64Encode(encryptBuffer(t.iv, t.encryptionKey, t.input))))>>

\* s is PREFIX, then the four components c, non-empty and base64, with one
\* separator between each two and none elsewhere
IsEnvelopeOf(s, c) ==
    /\ s = PREFIX \o c[1] \o <<SEPARATOR>> \o c[2] \o <<SEPARATOR>> \o c[3]
            \o <<SEPARATOR>> \o c[4]
    /\ \A i \in 1..4 : Len(c[i]) > 0 /\ isValidBase64(c[i]) /\ Separators(c[i]) = 0
    /\ Separators(Drop(s, Len(PREFIX))) = 3

\* the four strings parseEncryptedData returns for s, <<>> when it throws
Parsed(s) ==
    IF Failed(parseEncryptedData(s).err) THEN <<>>
    ELSE <<parseEncryptedData(s).salt, parseEncryptedData(s).iv,
           parseEncryptedData(s).cipherText, parseEncryptedData(s).receivedHmac>>

\* C7: the string encrypt returns is "ENC2:" followed by four non-empty
\* base64 components separated by exactly three colons, and
\* parseEncryptedData gives back the four components that were serialized
C7_EnvelopeFormat ==
    (last.op = "encrypt" /\ last.pc = "done") =>
        /\ IsEnvelopeOf(last.out, Serialized(last))
        /\ Parsed(last.out) = Serialized(last)

\* an encrypt call that returned an envelope
C7_EnvelopeReturned ==
    /\ last.op = "encrypt"
    /\ last.pc = "done"
    /\ Len(last.out) > Len(PREFIX)
    /\ stored = last.out

ValidationError(e) ==
    e.msg \in {"Secret key variable not found in environment file",
               "Secret key must be a non-empty string",
               "Secret key must be at least 16 characters long",
               "Value must be a non-empty string"}

\* the call t did no cryptographic work: no draw of a salt or nonce, no key
\* derivation, no parse of an envelope
NoCryptoWork(t) ==
    /\ t.drawn = <<>>
    /\ t.salt = <<>> /\ t.iv = <<>>
    /\ t.encryptionKey = <<>> /\ t.hmacKey = <<>>
    /\ \A f \in {"generateBase64Salt", "generateWebCryptoIV",
                  "deriveKeysWithArgon2", "argon2Hashing",
                  "parseEncryptedData", "verifyHMAC", "encryptBuffer",
                  "decryptBuffer"} : ~InTrace(t, f)

\* C8: encrypt fails with a validation error, before any salt, nonce or key
\* exists, when the passphrase is empty or under 16 characters or the
\* plaintext is empty; decrypt fails with a validation error, before the
\* parse and the key derivation, when the passphrase is empty or under 16
\* characters
C8_ValidationFirst ==
    /\ (last.op = "encrypt"
            /\ (Len(secrets[last.keyVar]) < 16 \/ Len(last.input) = 0)) =>
           (last.pc = "failed" /\ ValidationError(last.err) /\ NoCryptoWork(last))
    /\ (last.op = "decrypt" /\ Len(secrets[last.keyVar]) < 16) =>
           (last.pc = "failed" /\ ValidationError(last.err) /\ NoCryptoWork(last))

\* an encrypt call under a passphrase of 15 characters that ended
C8_ShortKeyRejected ==
    /\ last.op = "encrypt"
    /\ Len(secrets[last.keyVar]) = 15
    /\ Len(last.input) > 0
    /\ last.pc = "failed"

\* ------------------------------------------------------------------------
\* Properties of sequences of calls and of batches
\* ------------------------------------------------------------------------

\* C6: every encrypt call, alone or as an item of a batch, draws a salt and
\* a nonce no other call drew, so no two envelopes share a salt, no (key,
\* nonce) pair encrypts twice, and the envelopes differ, also for the same
\* plaintext under the same passphrase
C6_Freshness ==
    \A i \in 1..Len(produced), j \in 1..Len(produced) :
        i < j =>
            /\ produced[i].drawn[1] # produced[j].drawn[1]
            /\ produced[i].drawn[2] # produced[j].drawn[2]
            /\ produced[i].salt # produced[j].salt
            /\ produced[i].iv # produced[j].iv
            /\ <<produced[i].encryptionKey, produced[i].iv>>
                   # <<produced[j].encryptionKey, produced[j].iv>>
            /\ produced[i].out # produced[j].out

\* both items of one encryptMultiple call returned, for the same plaintext
\* under the same passphrase
C6_SamePlaintextTwice ==
    /\ batch.op = "encryptMultiple"
    /\ Len(items) = 2
    /\ Len(produced) = 2
    /\ produced[1].input = produced[2].input
    /\ produced[1].secretKey = produced[2].secretKey

\* the call of t run alone, with the draws t made
Single(t) ==
    RunCall(NewTask(t.op, t.input, t.keyVar), secrets,
            IF t.drawn = <<>> THEN 0 ELSE t.drawn[1],
            IF t.drawn = <<>> THEN 0 ELSE t.drawn[2])

\* C9: when every item of encryptMultiple or decryptMultiple succeeds, the
\* batch returns one element per input element, element i being the result
\* of the single call on input element i, whatever the order in which the
\* calls ended
C9_OrderPreserved ==
    (batch.op # "none" /\ AllDone(items)) =>
        /\ batch.status = "fulfilled"
        /\ Len(batch.result) = Len(items)
        /\ \A i \in 1..Len(items) :
               /\ Single(items[i]).pc = "done"
               /\ batch.result[i] = Single(items[i]).out

\* a batch of two that returned two different results, the second call
\* having ended before the first
C9_ReversedCompletion ==
    /\ batch.status = "fulfilled"
    /\ order = <<2, 1>>
    /\ batch.result[1] # batch.result[2]
    /\ batch.op = "decryptMultiple"

\* C10: when an item of encryptMultiple or decryptMultiple fails, the batch
\* call rejects with an error and returns no list, wherever the failing item
\* stands and whenever the others end
C10_WholeBatchFailure ==
    (batch.op # "none" /\ AnyFailed(items)) =>
        /\ batch.status = "rejected"
        /\ batch.result = <<>>
        /\ Failed(batch.err)
        /\ batch.err = items[FirstFailed(items, order)].err

\* the second item failed first and the first returned afterwards
C10_SuccessAfterFailure ==
    /\ Len(items) = 2
    /\ order = <<2, 1>>
    /\ items[2].pc = "failed"
    /\ items[1].pc = "done"
    /\ batch.status = "rejected"

\* ------------------------------------------------------------------------
\* Properties of the envelope parse
\* ------------------------------------------------------------------------

ComponentNames == <<"salt", "iv", "cipherText", "hmac">>

\* the parts of the string after the length of the prefix
PartsOf(encryptedData) == Split(Substring(encryptedData, Len(PREFIX)), SEPARATOR)

\* the structural rules the string violates: the prefix, the number of
\* parts, and for each of its first four parts, being empty or being
\* non-empty and not base64
ViolationsIn(encryptedData, parts) ==
    (IF StartsWith(encryptedData, PREFIX) THEN {} ELSE {<<"prefix", "">>})
    \cup (IF Len(parts) = EXPECTED_PARTS THEN {} ELSE {<<"partCount", "">>})
    \cup {<<"empty", ComponentNames[i]>> :
              i \in {j \in 1..EXPECTED_PARTS : j <= Len(parts) /\ Len(parts[j]) = 0}}
    \cup {<<"base64", ComponentNames[i]>> :
              i \in {j \in 1..EXPECTED_PARTS :
                         /\ j <= Len(parts)
                         /\ Len(parts[j]) > 0
                         /\ ~isValidBase64(parts[j])}}

Violations(encryptedData) == ViolationsIn(encryptedData, PartsOf(encryptedData))

\* the violations the error e of parseEncryptedData names
NamedViolations(e) ==
    IF e.msg = "Invalid encrypted format: Missing prefix" THEN {<<"prefix", "">>}
    ELSE IF e.msg = "Invalid format. Expected 4 parts" THEN {<<"partCount", "">>}
    ELSE IF e.msg = "Authentication failed: Missing components"
    THEN {<<"empty", e.detail[i]>> : i \in 1..Len(e.detail)}
    ELSE IF e.msg = "Invalid format for components"
    THEN {<<"base64", e.detail[i]>> : i \in 1..Len(e.detail)}
    ELSE {}

\* the last call was a decrypt that parseEncryptedData rejected
RejectedByParse ==
    /\ last.op = "decrypt"
    /\ last.pc = "failed"
    /\ InTrace(last, "parseEncryptedData")
    /\ ~InTrace(last, "deriveKeysWithArgon2")

\* C11: the error parseEncryptedData raises names every structural rule the
\* string violates (prefix, part count, empty parts, non-base64 parts)
C11_AllViolationsNamed ==
    RejectedByParse => NamedViolations(last.err) = Violations(last.input)

\* a string of four parts with an empty nonce and a cipherText that is not
\* base64, rejected with an error that names the nonce only
C11_OnlyFirstCategoryNamed ==
    /\ RejectedByParse
    /\ <<"empty", "iv">> \in Violations(last.input)
    /\ <<"base64", "cipherText">> \in Violations(last.input)
    /\ last.err = Err("Authentication failed: Missing components", <<"iv">>)

\* the first category, in the order prefix, part count, empty part, part
\* that is not base64, of which the set V holds a violation
FirstCategory(V) ==
    IF <<"prefix", "">> \in V THEN "prefix"
    ELSE IF <<"partCount", "">> \in V THEN "partCount"
    ELSE IF \E v \in V : v[1] = "empty" THEN "empty"
    ELSE IF \E v \in V : v[1] = "base64" THEN "base64"
    ELSE "none"

\* the category of the check that raises the error e
CategoryOf(e) ==
    IF e.msg = "Invalid encrypted format: Missing prefix" THEN "prefix"
    ELSE IF e.msg = "Invalid format. Expected 4 parts" THEN "partCount"
    ELSE IF e.msg = "Authentication failed: Missing components" THEN "empty"
    ELSE IF e.msg = "Invalid format for components" THEN "base64"
    ELSE "none"

\* the last call was a decrypt that got past parseEncryptedData
AcceptedByParse ==
    /\ last.op = "decrypt"
    /\ InTrace(last, "deriveKeysWithArgon2")

\* C17: parseEncryptedData checks the prefix, then the number of parts, then
\* that no part is empty, then that every part is base64: the error of a
\* rejected string is that of the first of these the string violates, and
\* a string that is accepted violates none
C17_FirstViolationReported ==
    /\ RejectedByParse => CategoryOf(last.err) = FirstCategory(Violations(last.input))
    /\ AcceptedByParse => FirstCategory(Violations(last.input)) = "none"

\* a string without the prefix and with one part only, rejected for its
\* prefix
C17_PrefixBeforePartCount ==
    /\ RejectedByParse
    /\ {<<"prefix", "">>, <<"partCount", "">>} \subseteq Violations(last.input)
    /\ last.err.msg = "Invalid encrypted format: Missing prefix"

\* ------------------------------------------------------------------------
\* Properties of the two authentication checks of decrypt
\* ------------------------------------------------------------------------

\* the last call was a decrypt that subtle.decrypt rejected, after
\* verifyHMAC had accepted the envelope
AeadTagFailure ==
    /\ last.op = "decrypt"
    /\ last.pc = "failed"
    /\ last.macChecked # <<>>
    /\ InTrace(last, "decryptBuffer")

\* C12: the error decrypt throws when the AES-GCM tag does not verify is
\* the error it throws when the HMAC does not match: same message, same
\* details
C12_AuthFailuresAlike ==
    AeadTagFailure =>
        last.err = verifyHMAC(last.salt, last.iv, last.cipherText, <<>>,
                              last.hmacKey)

\* a decrypt that failed on the AES-GCM tag with the error of subtle.decrypt
C12_OperationErrorSurfaced ==
    /\ AeadTagFailure
    /\ last.err.msg = "The operation failed for an operation-specific reason"
    /\ ~HmacMismatch(last.err)

\* ------------------------------------------------------------------------
\* Properties of the HMAC of an envelope
\* ------------------------------------------------------------------------

\* the HMAC component of the parsed envelope p is HMAC-SHA-256, under the
\* second half of the keys derived from secretKey and the salt of p, of the
\* bytes of its salt, nonce and cipherText in this order
MacHolds(p, secretKey) ==
    /\ ~Failed(p.err)
    /\ Base64Decode(p.receivedHmac)
           = HmacSha256(deriveKeysWithArgon2(secretKey, p.salt).hmacKey,
                        Base64Decode(p.salt) \o Base64Decode(p.iv)
                        \o Base64Decode(p.cipherText))

\* the last call was a decrypt of the envelope that encrypt returned, as
\* returned, under the passphrase it was made with
DecryptedUntampered ==
    /\ origin # NoCall
    /\ last.op = "decrypt"
    /\ last.input = origin.out
    /\ last.secretKey = origin.secretKey

\* C18: the HMAC component of every envelope encrypt produces is the
\* HMAC-SHA-256, keyed with the MAC half of the keys derived from the
\* passphrase and the envelope's salt, of salt || nonce || cipherText of
\* that envelope, and verifyHMAC accepts the envelope in a decrypt under
\* the same passphrase
C18_MacInvariant ==
    /\ origin # NoCall =>
           MacHolds(parseEncryptedData(origin.out), origin.secretKey)
    /\ DecryptedUntampered =>
           /\ InTrace(last, "verifyHMAC")
           /\ last.macChecked = <<last.salt, last.iv, last.cipherText>>

\* an envelope of a non-empty value was decrypted unaltered: verifyHMAC
\* accepted it and the call returned
C18_UntamperedVerified ==
    /\ DecryptedUntampered
    /\ Len(origin.input) > 0
    /\ MacHolds(parseEncryptedData(last.input), last.secretKey)
    /\ last.macChecked # <<>>
    /\ last.pc = "done"

\* ------------------------------------------------------------------------
\* Properties of error propagation
\* ------------------------------------------------------------------------

\* the first error among the steps of decrypt on input: the key k loaded,
\* its check, the check of the input, the parse p, the keys d derived with
\* the parsed salt, the HMAC check and the AES-GCM decryption
DecryptRaised(input, k, p, d) ==
    IF Failed(k.err) THEN k.err
    ELSE IF Failed(validateSecretKey(k.secretKey))
    THEN validateSecretKey(k.secretKey)
    ELSE IF Failed(validateInputs(input, k.secretKey, "decrypt"))
    THEN validateInputs(input, k.secretKey, "decrypt")
    ELSE IF Failed(p.err) THEN p.err
    ELSE IF Failed(d.err) THEN d.err
    ELSE IF Failed(verifyHMAC(p.salt, p.iv, p.cipherText, p.receivedHmac, d.hmacKey))
    THEN verifyHMAC(p.salt, p.iv, p.cipherText, p.receivedHmac, d.hmacKey)
    ELSE performDecryption(p.iv, d.encryptionKey, p.cipherText).err

\* the first error among the steps of encrypt on value: the key k loaded,
\* its check, the check of the value, the keys d derived with the salt
EncryptRaised(value, k, d) ==
    IF Failed(k.err) THEN k.err
    ELSE IF Failed(validateSecretKey(k.secretKey))
    THEN validateSecretKey(k.secretKey)
    ELSE IF Failed(validateInputs(value, k.secretKey, "encrypt"))
    THEN validateInputs(value, k.secretKey, "encrypt")
    ELSE d.err

KeyOf(t) == getSecretKeyFromEnvironment(secrets, t.keyVar)

\* the first error a step of the call t raised, NoError if none did
Raised(t) ==
    IF t.op = "encrypt"
    THEN EncryptRaised(t.input, KeyOf(t),
                       deriveKeysWithArgon2(KeyOf(t).secretKey, t.salt))
    ELSE DecryptRaised(t.input, KeyOf(t), parseEncryptedData(t.input),
                       deriveKeysWithArgon2(KeyOf(t).secretKey,
                                            parseEncryptedData(t.input).salt))

\* the item t of a batch ended as its steps did: failed with the first
\* error raised and no value, or returned when no step raised one
EndedAsRaised(t, e) ==
    IF Failed(e) THEN t.pc = "failed" /\ t.err = e /\ t.out = <<>>
    ELSE t.pc = "done" /\ ~Failed(t.err)

\* C13: every error a step of encrypt or decrypt raises is the error the
\* call fails with, whether the logger works or throws, and no call returns
\* a value after a step raised an error; a batch with a failed item is
\* rejected with the error of one of its failed items and returns no list
C13_NoFailureMasked ==
    /\ \A i \in 1..Len(items) :
           Settled(items[i]) => EndedAsRaised(items[i], Raised(items[i]))
    /\ (batch.op # "none" /\ AnyFailed(items)) =>
           /\ batch.status = "rejected"
           /\ batch.result = <<>>
           /\ \E i \in 1..Len(items) :
                  items[i].pc = "failed" /\ batch.err = items[i].err

\* a decryptMultiple call rejected with the error of subtle.decrypt, its
\* other item having returned
C13_LibraryErrorSurfaced ==
    /\ batch.op = "decryptMultiple"
    /\ batch.status = "rejected"
    /\ batch.err.msg = "The operation failed for an operation-specific reason"
    /\ Len(items) = 2
    /\ \E i \in 1..2 : items[i].pc = "done"

\* ------------------------------------------------------------------------
\* Properties of the lengths of the salt and of the nonce
\* ------------------------------------------------------------------------

\* the errors deriveKeysWithArgon2 throws: of its salt check and of the
\* argon2 library
KeyDerivationError(e) ==
    e.msg \in {"must be a non-empty string", "is not a valid base64 string",
               "Invalid salt length"}

\* the last call was a decrypt that entered deriveKeysWithArgon2 with a
\* salt component that decodes to another length than SALT
DerivedFromOddSalt ==
    /\ last.op = "decrypt"
    /\ InTrace(last, "deriveKeysWithArgon2")
    /\ Len(Base64Decode(Parsed(last.input)[1])) # SALT

\* C14: a decrypt whose salt component does not decode to 32 bytes fails in
\* deriveKeysWithArgon2 with a key-derivation error, and the argon2 hash is
\* not run
C14_SaltLengthRequired ==
    DerivedFromOddSalt =>
        /\ last.pc = "failed"
        /\ KeyDerivationError(last.err)
        /\ ~InTrace(last, "argon2Hashing")

\* a decrypt with a salt of 31 bytes for which the argon2 hash ran and gave
\* keys, and which verifyHMAC then rejected
C14_OddSaltHashed ==
    /\ DerivedFromOddSalt
    /\ Len(Base64Decode(last.salt)) = SALT - 1
    /\ InTrace(last, "argon2Hashing")
    /\ Len(last.hmacKey) = HMAC_KEY_LENGTH
    /\ HmacMismatch(last.err)

\* C15: encryptBuffer and decryptBuffer are entered with a nonce of
\* WEB_CRYPTO_IV (12) bytes only
C15_NonceLength ==
    /\ (last.op = "encrypt" /\ InTrace(last, "encryptBuffer")) =>
           Len(last.iv) = WEB_CRYPTO_IV
    /\ (last.op = "decrypt" /\ last.aeadInput # <<>>) =>
           Len(Base64Decode(last.aeadInput[1])) = WEB_CRYPTO_IV

\* a decrypt that entered decryptBuffer with a nonce of 11 bytes, verifyHMAC
\* having accepted the envelope
C15_ShortNonceDecrypted ==
    /\ last.op = "decrypt"
    /\ last.macChecked # <<>>
    /\ InTrace(last, "decryptBuffer")
    /\ Len(Base64Decode(last.aeadInput[1])) = WEB_CRYPTO_IV - 1

\* ------------------------------------------------------------------------
\* Properties of the encryption flow
\* ------------------------------------------------------------------------

\* the names ask for the variable of that key; no name asks for all
Requested(names, key) ==
    Len(names) = 0 \/ \E i \in 1..Len(names) : names[i] = key

\* the line sets a requested variable to a value that has a character
\* other than white space and does not start with the prefix
ToBeEncrypted(line, names) ==
    /\ line.key # ""
    /\ Requested(names, line.key)
    /\ Len(getTrimmedValue(line.value)) > 0
    /\ ~StartsWith(getTrimmedValue(line.value), PREFIX)

\* the line after is the line before with an envelope for its value
ReplacedByEnvelope(before, after) ==
    /\ after.key = before.key
    /\ after.value # before.value
    /\ StartsWith(after.value, PREFIX)
    /\ ~Failed(parseEncryptedData(after.value).err)

\* C16: once generateAndStoreSecretKey has completed for the current stage,
\* the secret file holds a key for the stage, and every later
\* encryptEnvironmentVariables(names) completes without error, replaces the
\* value of every requested variable that has a non-empty value not yet
\* encrypted by an ENC2: envelope, and leaves all other lines as they were
C16_EncryptionFlow ==
    flow.keyStored =>
        /\ Len(secrets[getCurrentEnvSecretKey(flow.stage)]) > 0
        /\ flow.op = "encryptEnvironmentVariables" =>
               /\ flow.status = "done"
               /\ Len(flow.file) = Len(flow.before)
               /\ \A i \in 1..Len(flow.file) :
                      IF ToBeEncrypted(flow.before[i], flow.names)
                      THEN ReplacedByEnvelope(flow.before[i], flow.file[i])
                      ELSE flow.file[i] = flow.before[i]

\* after the key of a stage without key was generated, a call that asked
\* for both variables encrypted the user name, whose value had white space
\* around it, and left the password, already encrypted, and the comment
C16_UserNameEncryptedPasswordKept ==
    /\ flow.keyStored
    /\ flow.stage = "prod"
    /\ flow.op = "encryptEnvironmentVariables"
    /\ flow.status = "done"
    /\ flow.names = <<"PORTAL_PASSWORD", "PORTAL_USERNAME">>
    /\ Len(flow.before) = 3
    /\ flow.before[2].value = <<32, 104, 105, 32>>
    /\ ReplacedByEnvelope(flow.before[2], flow.file[2])
    /\ StartsWith(flow.before[3].value, PREFIX)
    /\ flow.file[3] = flow.before[3]
    /\ flow.file[1] = flow.before[1]

\* ------------------------------------------------------------------------
\* Properties of constantTimeCompare
\* ------------------------------------------------------------------------

\* the last two calls were made with strings of the same lengths
SameLengths ==
    /\ compared.calls = 2
    /\ compared.before.lengths = <<Len(compared.firstValue), Len(compared.secondValue)>>

\* C19: constantTimeCompare(a, b) is true exactly when a = b, and two calls
\* whose arguments have the same lengths make the same number of passes
\* through the loop, wherever the arguments differ
C19_ConstantTimeCompare ==
    /\ compared.calls > 0 =>
           compared.result = (compared.firstValue = compared.secondValue)
    /\ SameLengths => compared.operations = compared.before.operations

\* two calls with strings of three characters, the first with a difference
\* at the first character and the second with equal strings, made three
\* passes each
C19_EarlyAndNoDifference ==
    /\ SameLengths
    /\ Len(compared.firstValue) = 3
    /\ compared.before.difference = 1
    /\ compared.result
    /\ compared.operations = 3
    /\ compared.before.operations = 3

\* ------------------------------------------------------------------------
\* Properties of the value decrypt returns
\* ------------------------------------------------------------------------

\* under the keys k, the parsed envelope p passes verifyHMAC and the tag
\* check of AES-GCM
Authenticated(p, k) ==
    /\ ~Failed(p.err)
    /\ ~Failed(k.err)
    /\ verifyHMAC(p.salt, p.iv, p.cipherText, p.receivedHmac, k.hmacKey) = NoError
    /\ ~Failed(decryptBuffer(Base64Decode(p.iv), k.encryptionKey,
                             Base64Decode(p.cipherText)).err)

\* the string v, encrypted under the keys k with the nonce of the parsed
\* envelope p, gives the cipherText bytes of p
EncryptsTo(v, p, k) ==
    encryptBuffer(Base64Decode(p.iv), k.encryptionKey, v) = Base64Decode(p.cipherText)

\* what a decrypt call t that returned must satisfy, p being the parse of
\* its input and k the keys of its passphrase and of the salt of p
RightlyReturned(t, p, k) ==
    /\ Authenticated(p, k)
    /\ t.macChecked = <<p.salt, p.iv, p.cipherText>>
    /\ t.aeadInput = <<p.iv, p.cipherText>>
    /\ EncryptsTo(t.out, p, k)

ReturnedByDecrypt == last.op = "decrypt" /\ last.pc = "done"

\* C20: when decrypt(X, K) returns v, the HMAC check and the AES-GCM tag
\* check of that call succeeded and v is the plaintext that was encrypted
\* under K with the salt, the nonce and the cipherText bytes X carries
C20_NoWrongPlaintext ==
    ReturnedByDecrypt =>
        RightlyReturned(last, parseEncryptedData(last.input),
                        deriveKeysWithArgon2(
                            last.secretKey, parseEncryptedData(last.input).salt))

\* decrypt returned "a" for an authenticated envelope whose cipherText is
\* the encryption of U+FEFF "a", and not that of "a"
C20_ReturnedWithoutBom ==
    /\ ReturnedByDecrypt
    /\ last.out = <<97>>
    /\ Authenticated(parseEncryptedData(last.input),
                     deriveKeysWithArgon2(
                         last.secretKey, parseEncryptedData(last.input).salt))
    /\ EncryptsTo(<<65279, 97>>, parseEncryptedData(last.input),
                  deriveKeysWithArgon2(
                      last.secretKey, parseEncryptedData(last.input).salt))
    /\ ~EncryptsTo(last.out, parseEncryptedData(last.input),
                   deriveKeysWithArgon2(
                       last.secretKey, parseEncryptedData(last.input).salt))

\* ------------------------------------------------------------------------
\* Properties of the items of a batch
\* ------------------------------------------------------------------------

\* the keys the call t holds are those of its own passphrase and salt
OwnKeys(t) ==
    t.encryptionKey # <<>> =>
        /\ t.encryptionKey = deriveKeysWithArgon2(t.secretKey, t.salt).encryptionKey
        /\ t.hmacKey = deriveKeysWithArgon2(t.secretKey, t.salt).hmacKey

\* the calls t and u have drawn different salts and different nonces
OwnDraws(t, u) ==
    (t.drawn # <<>> /\ u.drawn # <<>>) =>
        /\ t.drawn[1] # u.drawn[1]
        /\ t.drawn[2] # u.drawn[2]
        /\ t.salt # u.salt
        /\ t.iv # u.iv

\* the call t ended as the call alone ended
SameOutcome(t, alone) ==
    /\ t.pc = alone.pc
    /\ t.out = alone.out
    /\ t.err = alone.err

\* decrypt of the input of the call t, called alone
DecryptAlone(t) == RunCall(NewTask("decrypt", t.input, t.keyVar), secrets, 0, 0)

\* C21: in every interleaving of the calls of a batch, each call derives and
\* holds the keys of its own passphrase and salt only, two calls never have
\* the same salt or nonce drawn, and each item of decryptMultiple ends as
\* decrypt of that item alone ends
C21_ItemsIndependent ==
    /\ \A i \in 1..Len(items) : OwnKeys(items[i])
    /\ \A i, j \in 1..Len(items) : i # j => OwnDraws(items[i], items[j])
    /\ \A i \in 1..Len(items) :
           (items[i].op = "decrypt" /\ Settled(items[i])) =>
               SameOutcome(items[i], DecryptAlone(items[i]))
    /\ (batch.op = "decryptMultiple" /\ batch.status = "fulfilled") =>
           \A i \in 1..Len(items) : batch.result[i] = DecryptAlone(items[i]).out

\* two envelopes with different salts were decrypted in one batch, the
\* second call ending before the first, and both returned
C21_TwoItemsInterleaved ==
    /\ batch.op = "decryptMultiple"
    /\ batch.status = "fulfilled"
    /\ Len(items) = 2
    /\ order = <<2, 1>>
    /\ items[1].salt # items[2].salt
    /\ items[1].encryptionKey # items[2].encryptionKey
    /\ items[1].pc = "done"
    /\ items[2].pc = "done"

\* ------------------------------------------------------------------------
\* Properties of the steps of one call
\* ------------------------------------------------------------------------

\* the functions a call of encrypt enters, in the order of the code
EncryptPipeline ==
    <<"getSecretKeyFromEnvironment", "validateSecretKey", "validateInputs",
      "generateBase64Salt", "generateWebCryptoIV", "deriveKeysWithArgon2",
      "argon2Hashing", "createEncryptedPayload", "encryptBuffer",
      "prepareHMACData", "computeHMAC", "formatEncryptedPayload">>

\* the functions a call of decrypt enters, in the order of the code
DecryptPipeline ==
    <<"getSecretKeyFromEnvironment", "validateSecretKey", "validateInputs",
      "parseEncryptedData", "deriveKeysWithArgon2", "argon2Hashing",
      "verifyHMAC", "performDecryption", "decryptBuffer", "TextDecoder.decode">>

IsPrefix(s, t) == Len(s) <= Len(t) /\ s = Take(t, Len(s))

\* the call t entered the functions of the pipeline once each, in its
\* order, up to the one that threw, or all of them if none did
Linear(t, pipeline) ==
    /\ Len(t.trace) > 0
    /\ IsPrefix(t.trace, pipeline)
    /\ t.pc = "done" => (t.trace = pipeline /\ ~Failed(t.err))
    /\ t.pc = "failed" => (Failed(t.err) /\ t.out = <<>>)

\* C22: a call of encrypt or decrypt runs each of its steps at most once and
\* in the order of the pipeline; after the step that fails no step runs,
\* none is run again, and the call ends in failure
C22_LinearPipeline ==
    /\ last.op = "encrypt" => (Settled(last) /\ Linear(last, EncryptPipeline))
    /\ last.op = "decrypt" => (Settled(last) /\ Linear(last, DecryptPipeline))

\* a decrypt whose HMAC did not verify ended there, after seven steps
C22_StoppedAtVerifyHMAC ==
    /\ last.op = "decrypt"
    /\ last.pc = "failed"
    /\ last.trace = Take(DecryptPipeline, 7)
    /\ last.trace[7] = "verifyHMAC"

\* ------------------------------------------------------------------------
\* Properties of repeated runs of encryptEnvironmentVariables
\* ------------------------------------------------------------------------

\* the last call was encryptEnvironmentVariables
EncryptionRun == flow.op = "encryptEnvironmentVariables"

\* the last call repeats, with the same names, the call before it, which
\* completed
RepeatedRun ==
    /\ EncryptionRun
    /\ flow.previous.op = "encryptEnvironmentVariables"
    /\ flow.previous.status = "done"
    /\ flow.previous.names = flow.names

\* C23: encryptEnvironmentVariables hands no value that starts with ENC2: to
\* CryptoService.encrypt, and a run that repeats a completed run with the
\* same names, the file not changed in between, encrypts nothing, does not
\* write the file and leaves it as it was
C23_NoDoubleEncryption ==
    /\ EncryptionRun =>
           \A i \in 1..Len(flow.passed) : ~StartsWith(flow.passed[i], PREFIX)
    /\ RepeatedRun =>
           /\ flow.status = "done"
           /\ flow.passed = <<>>
           /\ ~flow.written
           /\ flow.file = flow.before

\* a run repeated on a file in which the first run had put an envelope, and
\* which held a value with the prefix from the start
C23_SecondRunIdle ==
    /\ RepeatedRun
    /\ flow.keyStored
    /\ Len(flow.file) = 3
    /\ isEncrypted(flow.file[2].value)
    /\ flow.file[3].value = PREFIX \o B64Sample
    /\ flow.passed = <<>>
    /\ ~flow.written

\* ------------------------------------------------------------------------
\* Properties of a run of encryptEnvironmentVariables that fails
\* ------------------------------------------------------------------------

\* C24: when the encryption of one of the selected variables fails,
\* encryptEnvironmentVariables throws and does not write the stage file:
\* every line is as before, those of the variables encrypted earlier in
\* the run included
C24_AllOrNothing ==
    (EncryptionRun /\ (flow.status = "failed" \/ Failed(flow.err))) =>
        /\ flow.status = "failed"
        /\ Failed(flow.err)
        /\ ~flow.written
        /\ flow.file = flow.before

\* a run that handed two values to CryptoService.encrypt, the second of
\* which threw after the first was encrypted, and left the file as it was
C24_SecondEncryptionFailed ==
    /\ EncryptionRun
    /\ flow.status = "failed"
    /\ Len(flow.passed) = 2
    /\ Len(produced) > 0
    /\ produced[Len(produced)].input = flow.passed[1]
    /\ flow.file = flow.before
    /\ ~flow.written

\* ------------------------------------------------------------------------
\* Properties of the values encryptEnvironmentVariables skips
\* ------------------------------------------------------------------------

\* the line sets a requested variable to a value with a character other
\* than white space
Selected(line, names) ==
    /\ line.key # ""
    /\ Requested(names, line.key)
    /\ Len(getTrimmedValue(line.value)) > 0

\* C25: every value of a requested variable that a completed run of
\* encryptEnvironmentVariables left as it was, the value not being empty,
\* is an envelope as CryptoEngine.isEncrypted accepts it: the prefix and
\* four non-empty base64 parts
C25_SkippedAreEnvelopes ==
    (EncryptionRun /\ flow.status = "done") =>
        \A i \in 1..Len(flow.before) :
            (Selected(flow.before[i], flow.names) /\ flow.file[i] = flow.before[i]) =>
                isEncrypted(getTrimmedValue(flow.before[i].value))

\* C25, amended: a completed run leaves a non-empty value of a requested
\* variable as it was exactly when the trimmed value starts with ENC2:,
\* whatever follows the prefix; every other such value is replaced by an
\* envelope
C25_SkippedHavePrefix ==
    (EncryptionRun /\ flow.status = "done") =>
        /\ Len(flow.file) = Len(flow.before)
        /\ \A i \in 1..Len(flow.before) :
               Selected(flow.before[i], flow.names) =>
                   IF StartsWith(getTrimmedValue(flow.before[i].value), PREFIX)
                   THEN flow.file[i] = flow.before[i]
                   ELSE /\ flow.file[i].value # flow.before[i].value
                        /\ isEncrypted(flow.file[i].value)

\* a completed run that encrypted the user name and left the password,
\* whose value has the prefix and one base64 part only
C25_PrefixWithOnePartSkipped ==
    /\ EncryptionRun
    /\ flow.status = "done"
    /\ flow.written
    /\ Len(flow.before) = 3
    /\ Selected(flow.before[3], flow.names)
    /\ flow.before[3].value = PREFIX \o B64Sample
    /\ ~isEncrypted(flow.before[3].value)
    /\ flow.file[3] = flow.before[3]
    /\ Selected(flow.before[2], flow.names)
    /\ isEncrypted(flow.file[2].value)

\* ------------------------------------------------------------------------
\* Properties of the key generateAndStoreSecretKey returns
\* ------------------------------------------------------------------------

\* the last call was generateAndStoreSecretKey and it returned
KeyReturned ==
    /\ flow.op = "generateAndStoreSecretKey"
    /\ flow.status = "done"

\* C26: the key generateAndStoreSecretKey returns is the key the secret
\* file holds for the current stage when the call returns, also when the
\* file held a key for the stage before the call
C26_ReturnedKeyIsStored ==
    KeyReturned =>
        flow.returned = secrets[getCurrentEnvSecretKey(flow.stage)]

\* the call returned a generated key while the secret file of the stage
\* dev, which held a key from the start, still holds that key
C26_ExistingKeyKept ==
    /\ KeyReturned
    /\ flow.stage = "dev"
    /\ Len(flow.returned) > 0
    /\ secrets[getCurrentEnvSecretKey(flow.stage)] =
           StoredSecrets[getCurrentEnvSecretKey(flow.stage)]
    /\ flow.returned # secrets[getCurrentEnvSecretKey(flow.stage)]

\* ------------------------------------------------------------------------
\* Properties of EnvironmentFileManager.initialize
\* ------------------------------------------------------------------------

\* no file name is twice in the list
NoDuplicates(files) ==
    \A i, j \in 1..Len(files) : files[i] = files[j] => i = j

\* C27: whatever the interleaving of the calls of initialize outside CI,
\* no environment file is loaded twice: loadedFiles never holds a file name
\* twice, and a call made when initialized was set loaded nothing
C27_LoadedAtMostOnce ==
    ~manager.isCI =>
        /\ NoDuplicates(manager.loadedFiles)
        /\ \A c \in 1..Len(manager.calls) :
               manager.calls[c].sawInitialized =>
                   /\ manager.calls[c].pc = "returned"
                   /\ manager.calls[c].loaded = <<>>

\* two calls of initialize, the second made while the first awaited
\* doesFileExist, both read the base file and both returned
C27_BaseFileLoadedTwice ==
    /\ ~manager.isCI
    /\ Len(manager.calls) = 2
    /\ manager.calls[1].pc = "returned"
    /\ manager.calls[2].pc = "returned"
    /\ ~manager.calls[2].sawInitialized
    /\ manager.calls[1].loaded = <<getSecretFilePath>>
    /\ manager.calls[2].loaded = <<getSecretFilePath>>
    /\ manager.loadedFiles = <<getSecretFilePath, getSecretFilePath>>

\* C28: a call of initialize throws exactly when loading the base file
\* failed, and then did not set initialized and did not go on to the stage
\* file; a failure to load the stage file is swallowed and the call goes
\* on to set initialized; initialized is set only by a call that
\* returned, so a call that follows failed calls only loads again; in
\* CI no file is loaded and initialized stays false
C28_FailurePolicy ==
    /\ \A c \in 1..Len(manager.calls) :
           /\ manager.calls[c].pc = "failed" <=> manager.calls[c].base = "unreadable"
           /\ manager.calls[c].pc = "failed" =>
                  /\ Failed(manager.calls[c].err)
                  /\ manager.calls[c].err.detail = <<getSecretFilePath>>
                  /\ manager.calls[c].stage = "none"
                  /\ ~manager.calls[c].setInitialized
           /\ manager.calls[c].stage = "unreadable" =>
                  /\ manager.calls[c].pc \in {"stageDone", "returned"}
                  /\ ~Failed(manager.calls[c].err)
                  /\ manager.calls[c].pc = "returned" =>
                         manager.calls[c].setInitialized
           /\ (~manager.calls[c].sawInitialized /\ ~manager.isCI) =>
                  (manager.calls[c].pc = "doesBaseExist" \/ manager.calls[c].base # "none")
    /\ manager.initialized <=>
           \E c \in 1..Len(manager.calls) : manager.calls[c].setInitialized
    /\ manager.isCI =>
           /\ ~manager.initialized
           /\ manager.loadedFiles = <<>>
           /\ \A c \in 1..Len(manager.calls) :
                  /\ manager.calls[c].pc = "returned"
                  /\ manager.calls[c].loaded = <<>>

\* the first call threw on the base file and left initialized false; the
\* file repaired, the second call loaded it, met a stage file it could not
\* load, and returned with initialized set
C28_RetriedAfterBaseFailure ==
    /\ Len(manager.calls) = 2
    /\ manager.calls[1].pc = "failed"
    /\ manager.calls[1].base = "unreadable"
    /\ ~manager.calls[2].sawInitialized
    /\ manager.calls[2].base = "readable"
    /\ manager.calls[2].stage = "unreadable"
    /\ manager.calls[2].pc = "returned"
    /\ manager.initialized
    /\ manager.loadedFiles = <<getSecretFilePath>>

\* ------------------------------------------------------------------------
\* Properties of the error log
\* ------------------------------------------------------------------------

\* the call i of captureError is the first since the cache was cleared
\* for its error
FirstForError(i) ==
    \A j \in 1..(i - 1) : errors.captured[j].error # errors.captured[i].error

\* the key of the error of the call i
KeyOfCall(i) == generateErrorKey(errors.captured[i].error)

\* C29: of the calls of captureError made for one error since the cache
\* was last cleared, the first one, that of the innermost catch block,
\* writes the error to the log and the later ones write nothing
C29_LoggedExactlyOnce ==
    \A i \in 1..Len(errors.captured) :
        errors.captured[i].logged <=> FirstForError(i)

\* C29, amended: errors are told apart by the hash of their stack.  The
\* first call of captureError since the cache was cleared for an error
\* whose key no earlier call had writes it to the log, from the innermost
\* catch block when it is the first for the error; a later call for an
\* error of the same key writes nothing as long as shouldLogError has not
\* evicted keys in between
C29_LoggedOncePerKey ==
    \A i \in 1..Len(errors.captured) :
        /\ (\A j \in 1..(i - 1) : KeyOfCall(j) # KeyOfCall(i)) =>
               /\ errors.captured[i].logged
               /\ errors.captured[i].source = Chain[1]
        /\ (\E j \in 1..(i - 1) :
                /\ KeyOfCall(j) = KeyOfCall(i)
                /\ errors.captured[j].evictions = errors.captured[i].evictions) =>
               ~errors.captured[i].logged

\* one error went through the four catch blocks of the chain and was
\* written to the log by decryptBuffer only
C29_ChainLoggedOnce ==
    /\ Len(errors.captured) = Len(Chain)
    /\ \A i \in 1..Len(Chain) :
           /\ errors.captured[i].error = ErrorAa
           /\ errors.captured[i].source = Chain[i]
           /\ errors.captured[i].logged <=> i = 1
    /\ errors.log = <<[error |-> ErrorAa, source |-> Chain[1]]>>

\* ------------------------------------------------------------------------
\* Properties of the sizes of the caches
\* ------------------------------------------------------------------------

\* C30: loggedErrors and sanitizedMessages never hold more than
\* MAX_CACHE_SIZE entries, and a key inserted when loggedErrors was full
\* went in after floor(0.4 * size) of the oldest keys were removed
C30_BoundedCaches ==
    /\ Len(errors.loggedErrors) <= MAX_CACHE_SIZE
    /\ Cardinality(errors.sanitizedMessages) <= MAX_CACHE_SIZE
    /\ (errors.insert.key # 0 /\ Len(errors.insert.before) < MAX_CACHE_SIZE) =>
           errors.loggedErrors = Append(errors.insert.before, errors.insert.key)
    /\ (errors.insert.key # 0 /\ Len(errors.insert.before) >= MAX_CACHE_SIZE) =>
           /\ Len(errors.insert.before) = MAX_CACHE_SIZE
           /\ errors.loggedErrors =
                  Append(Drop(errors.insert.before, (MAX_CACHE_SIZE * 4) \div 10),
                         errors.insert.key)

\* a new key came to the full set: the 2000 oldest keys left, the key is
\* the last of 3001, and the full map of messages took no new entry
C30_EvictedWhenFull ==
    /\ errors.insert.key = generateErrorKey(ErrorOf(20002))
    /\ Len(errors.insert.before) = MAX_CACHE_SIZE
    /\ Len(errors.loggedErrors) = 3001
    /\ errors.loggedErrors[1] = errors.insert.before[2001]
    /\ errors.loggedErrors[3001] = errors.insert.key
    /\ Cardinality(errors.sanitizedMessages) = MAX_CACHE_SIZE
    /\ ErrorOf(20002).stack \notin errors.sanitizedMessages

====
